---- MODULE Spec2Model ----
(***************************************************************************)
(* A model of kontaminant's statistics engine, src/src/kmer_stats.c:       *)
(* the single-read classifier (update_stats, update_stats_parallel), the   *)
(* paired-read classifier (update_stats_for_both and its _parallel twin),  *)
(* and the k-mer similarity scanner (check_kmers_in_common,                *)
(* check_unique_kmers).                                                    *)
(*                                                                         *)
(* Specifications:                                                         *)
(*   Spec      the serial driver: one pair of reads is looked up, then     *)
(*             update_stats runs for each mate and update_stats_for_both   *)
(*             for the pair, each as one atomic call.                      *)
(*   SpecPar   worker threads running the _parallel variants statement by  *)
(*             statement against shared counters and their mutexes.        *)
(*   SpecScan  the hash-table traversal that calls the two scanner         *)
(*             callbacks once per stored k-mer.                            *)
(***************************************************************************)
EXTENDS Integers, Sequences, FiniteSets, TLC

(***************************************************************************)
(* Program constants.  Both are array capacities set in global.h; the      *)
(* model uses small values so that the capacity is reached.                *)
(***************************************************************************)
MAX_CONTAMINANTS == 2
MAX_READ_LENGTH == 1

(***************************************************************************)
(* Bounds of the model.                                                    *)
(***************************************************************************)
\* k-mers in one read
MaxKmers == 2
\* worker threads of SpecPar
NThreads == 2
\* distinct k-mers stored in the hash table of SpecScan
MaxTableKmers == 3
MaxReads == 2         \* reads classified, over both mates
MaxCalcKmers == 1     \* k-mers of a read classified before a finalization
MaxPairs == 1         \* pairs classified
MaxCalcCalls == 2     \* calls of kmer_stats_calculate
MaxRefKmers == 1      \* reference k-mers loaded per contaminant

VARIABLES
    n_contaminants,   \* stats->n_contaminants
    cmd_line,         \* the CmdLine fields the classifiers read
    read,             \* stats->read[0], stats->read[1]
    both_reads,       \* stats->both_reads
    kmers_in_common,  \* stats->kmers_in_common
    unique_kmers,     \* stats->unique_kmers
    counts,           \* the KmerCounts of the two mates of the current pair
    done,             \* Spec: the calls of the driver that have returned
    last,             \* Spec: a record of the call that returned last
    threads,          \* SpecPar: each worker's job, locals and position
    lock,             \* SpecPar: the holder of each structure's mutex
    serial,           \* SpecPar: the counters a serial run of the same jobs leaves
    hash,             \* SpecScan: the stored k-mers' membership bitsets
    visited,          \* SpecScan: per traversal, the nodes already visited
    contaminant_kmers,  \* stats->contaminant_kmers
    kmers_seen,       \* contaminant_kmers_seen of read[0], read[1] and both_reads
    pc,               \* the _pc fields of read[0], read[1] and both_reads
    calc,             \* SpecCalc: the calls made so far
    number_of_files,  \* stats->number_of_files
    files             \* the output files: fopen calls made, those that failed, files written

vars == <<n_contaminants, cmd_line, read, both_reads, kmers_in_common,
          unique_kmers, counts, done, last, threads, lock, serial, hash, visited,
          contaminant_kmers, kmers_seen, pc, calc, number_of_files, files>>

\* what the finalizer reads and writes besides the counters
calc_vars == <<contaminant_kmers, kmers_seen, pc, calc>>

\* what the functions that write files read and write besides the counters
io_vars == <<number_of_files, files>>

\* the indices of the MAX_CONTAMINANTS-sized arrays
CIdx == 0 .. (MAX_CONTAMINANTS - 1)
\* the mates of a pair: the index r of stats->read[r]
Mates == {0, 1}
\* assigned_contaminant of a read that matched nothing
Unassigned == -1

RECURSIVE SumTo(_, _)
SumTo(f, n) == IF n <= 0 THEN 0 ELSE f[n - 1] + SumTo(f, n - 1)

\* the zeroed MAX_CONTAMINANTS-sized array
ZeroArray == [i \in CIdx |-> 0]

(***************************************************************************)
(* The k-mer lookup collaborator (kmer_reader.c, not part of this file):   *)
(* a read is a list of k-mers, each with the set of contaminants it        *)
(* belongs to (empty for a k-mer that is in no reference).  The raw hit    *)
(* count of contaminant i is the number of k-mers belonging to i, the      *)
(* unique hit count the number belonging to i alone.                       *)
(***************************************************************************)
kmer_counts(s) ==
    LET raw == [i \in CIdx |-> Cardinality({k \in 1 .. Len(s) : i \in s[k]})]
    IN  [kmers_loaded |-> Len(s),
         kmers_from_contaminant |-> raw,
         unique_kmers_from_contaminant |->
             [i \in CIdx |-> Cardinality({k \in 1 .. Len(s) : s[k] = {i}})],
         contaminants_detected |-> Cardinality({i \in CIdx : raw[i] > 0}),
         assigned_contaminant |-> Unassigned,
         unique_assigned_contaminant |-> Unassigned]

\* every KmerCounts a read of at most MaxKmers k-mers over n contaminants gives
Inputs(n) ==
    {kmer_counts(s) :
        s \in UNION {[1 .. k -> SUBSET (0 .. (n - 1))] : k \in 0 .. MaxKmers}}

\* the threshold settings of a run
CmdLines ==
    [kmer_threshold_read : {1, 2},
     kmer_threshold_overall : {2, 3},
     filter_unique : BOOLEAN]

(***************************************************************************)
(* kmer_stats_read_counts_initialise, on the calloc'ed structure.          *)
(* contaminated_kmers_per_read is given the indices the classifier         *)
(* writes, 0 .. MAX_READ_LENGTH.                                           *)
(***************************************************************************)
kmer_stats_read_counts_initialise ==
    [number_of_reads |-> 0,
     k1_contaminated_reads |-> 0,
     kn_contaminated_reads |-> 0,
     k1_contaminated_reads_by_contaminant |-> ZeroArray,
     k1_unique_contaminated_reads_by_contaminant |-> ZeroArray,
     kn_contaminated_reads_by_contaminant |-> ZeroArray,
     kn_unique_contaminated_reads_by_contaminant |-> ZeroArray,
     reads_with_highest_contaminant |-> ZeroArray,
     reads_unclassified |-> 0,
     species_read_counts |-> ZeroArray,
     species_unclassified |-> 0,
     contaminated_kmers_per_read |-> [k \in 0 .. MAX_READ_LENGTH |-> 0]]

\* kmer_stats_both_reads_initialise
kmer_stats_both_reads_initialise ==
    [number_of_reads |-> 0,
     threshold_passed_reads |-> 0,
     k1_both_reads_not_threshold |-> 0,
     k1_either_read_not_threshold |-> 0,
     threshold_passed_reads_unique |-> 0,
     k1_both_reads_not_threshold_unique |-> 0,
     k1_either_read_not_threshold_unique |-> 0,
     threshold_passed_reads_by_contaminant |-> ZeroArray,
     k1_both_reads_not_threshold_by_contaminant |-> ZeroArray,
     k1_either_read_not_threshold_by_contaminant |-> ZeroArray,
     threshold_passed_reads_unique_by_contaminant |-> ZeroArray,
     k1_both_reads_not_threshold_unique_by_contaminant |-> ZeroArray,
     k1_either_read_not_threshold_unique_by_contaminant |-> ZeroArray,
     filter_read |-> FALSE]

(***************************************************************************)
(* update_stats: the serial single-read classifier.                        *)
(***************************************************************************)
\* the histogram index with the reads of MAX_READ_LENGTH k-mers or more one bucket lower
histogram_index_below(c) ==
    IF c.kmers_loaded < MAX_READ_LENGTH THEN c.kmers_loaded ELSE MAX_READ_LENGTH - 1

\* the histogram index of a read: kmers_loaded < MAX_READ_LENGTH ? kmers_loaded : MAX_READ_LENGTH
histogram_index(c) ==
    IF c.kmers_loaded < MAX_READ_LENGTH THEN c.kmers_loaded ELSE MAX_READ_LENGTH

\* the locals of update_stats at entry
read_locals ==
    [largest_contaminant |-> 0,
     largest_kmers |-> 0,
     unique_largest_contaminant |-> 0,
     unique_largest_kmers |-> 0]

\* track_largest with >= for >: on a tie the later contaminant replaces the earlier
track_largest_ge(loc, c, i) ==
    IF c.kmers_from_contaminant[i] >= loc.largest_kmers
    THEN [loc EXCEPT !.largest_kmers = c.kmers_from_contaminant[i],
                     !.largest_contaminant = i]
    ELSE loc

\* "Have we got more kmers for this contaminant than for any others?"
track_largest(loc, c, i) ==
    IF c.kmers_from_contaminant[i] > loc.largest_kmers
    THEN [loc EXCEPT !.largest_kmers = c.kmers_from_contaminant[i],
                     !.largest_contaminant = i]
    ELSE loc

\* track_unique_largest reading the raw hit count in place of the unique one
track_unique_largest_raw(loc, c, i) ==
    IF c.kmers_from_contaminant[i] > loc.unique_largest_kmers
    THEN [loc EXCEPT !.unique_largest_kmers = c.kmers_from_contaminant[i],
                     !.unique_largest_contaminant = i]
    ELSE loc

\* track_unique_largest with >= for >, in the serial variant only
track_unique_largest_ge(loc, c, i) ==
    IF c.unique_kmers_from_contaminant[i] >= loc.unique_largest_kmers
    THEN [loc EXCEPT !.unique_largest_kmers = c.unique_kmers_from_contaminant[i],
                     !.unique_largest_contaminant = i]
    ELSE loc

\* "Have we got more unique kmers for this contaminant than for any others?"
track_unique_largest(loc, c, i) ==
    IF c.unique_kmers_from_contaminant[i] > loc.unique_largest_kmers
    THEN [loc EXCEPT !.unique_largest_kmers = c.unique_kmers_from_contaminant[i],
                     !.unique_largest_contaminant = i]
    ELSE loc

\* the first loop with k1_contaminated_reads++ inside it, for each contaminant with a hit
RECURSIVE k1_scan_counting(_, _, _, _)
k1_scan_counting(acc, c, n, i) ==
    IF i >= n THEN acc
    ELSE IF c.kmers_from_contaminant[i] > 0
    THEN LET loc == track_unique_largest(track_largest(acc.loc, c, i), c, i)
             r1 == [acc.rc EXCEPT !.k1_contaminated_reads_by_contaminant[i] = @ + 1,
                                  !.k1_contaminated_reads = @ + 1]
             r2 == IF c.contaminants_detected = 1
                   THEN [r1 EXCEPT !.k1_unique_contaminated_reads_by_contaminant[i] = @ + 1]
                   ELSE r1
         IN  k1_scan_counting([rc |-> r2, loc |-> loc], c, n, i + 1)
    ELSE k1_scan_counting(acc, c, n, i + 1)

\* the loop over the contaminants of a read with kmers_loaded > 0, from index i
RECURSIVE k1_scan(_, _, _, _)
k1_scan(acc, c, n, i) ==
    IF i >= n THEN acc
    ELSE IF c.kmers_from_contaminant[i] > 0
    THEN LET loc == track_unique_largest(track_largest(acc.loc, c, i), c, i)
             r1 == [acc.rc EXCEPT !.k1_contaminated_reads_by_contaminant[i] = @ + 1]
             r2 == IF c.contaminants_detected = 1
                   THEN [r1 EXCEPT !.k1_unique_contaminated_reads_by_contaminant[i] = @ + 1]
                   ELSE r1
         IN  k1_scan([rc |-> r2, loc |-> loc], c, n, i + 1)
    ELSE k1_scan(acc, c, n, i + 1)

\* the second loop with >= for > in the test of a contaminant's count
RECURSIVE kn_scan_ge(_, _, _, _, _)
kn_scan_ge(rc, c, n, threshold, i) ==
    IF i >= n THEN rc
    ELSE IF c.kmers_from_contaminant[i] >= threshold
    THEN LET r1 == [rc EXCEPT !.kn_contaminated_reads_by_contaminant[i] = @ + 1]
             r2 == IF c.contaminants_detected = 1
                   THEN [r1 EXCEPT !.kn_unique_contaminated_reads_by_contaminant[i] = @ + 1]
                   ELSE r1
         IN  kn_scan_ge(r2, c, n, threshold, i + 1)
    ELSE kn_scan_ge(rc, c, n, threshold, i + 1)

\* the loop over the contaminants of a read that reached the read threshold
RECURSIVE kn_scan(_, _, _, _, _)
kn_scan(rc, c, n, threshold, i) ==
    IF i >= n THEN rc
    ELSE IF c.kmers_from_contaminant[i] > threshold
    THEN LET r1 == [rc EXCEPT !.kn_contaminated_reads_by_contaminant[i] = @ + 1]
             r2 == IF c.contaminants_detected = 1
                   THEN [r1 EXCEPT !.kn_unique_contaminated_reads_by_contaminant[i] = @ + 1]
                   ELSE r1
         IN  kn_scan(r2, c, n, threshold, i + 1)
    ELSE kn_scan(rc, c, n, threshold, i + 1)

\* the gate with > for >=
kn_gate_strict(c, cmd) == c.kmers_loaded > cmd.kmer_threshold_read

\* "If we got over our single read kmer threshold..."
kn_gate(c, cmd) == c.kmers_loaded >= cmd.kmer_threshold_read

\* the classification counting the read as unclassified and as assigned
classify_read_twice(rc, loc) ==
    [rc EXCEPT !.reads_unclassified = @ + 1,
               !.reads_with_highest_contaminant[loc.largest_contaminant] = @ + 1]

\* "If we didn't find any kmers, then this is unclassified": the counter raised
classify_read(rc, loc) ==
    IF loc.largest_kmers = 0
    THEN [rc EXCEPT !.reads_unclassified = @ + 1]
    ELSE [rc EXCEPT !.reads_with_highest_contaminant[loc.largest_contaminant] = @ + 1]

\* update_stats clearing the hit counts it has classified
update_stats_consuming(rc, c, n, cmd) ==
    LET r0 == [rc EXCEPT !.number_of_reads = @ + 1,
                         !.contaminated_kmers_per_read[histogram_index(c)] = @ + 1]
        a1 == IF c.kmers_loaded > 0
              THEN LET s == k1_scan([rc |-> r0, loc |-> read_locals], c, n, 0)
                   IN  [rc |-> [s.rc EXCEPT !.k1_contaminated_reads = @ + 1],
                        loc |-> s.loc]
              ELSE [rc |-> r0, loc |-> read_locals]
        r2 == classify_read(a1.rc, a1.loc)
        c2 == [c EXCEPT
                 !.kmers_loaded = 0,
                 !.assigned_contaminant =
                     IF a1.loc.largest_kmers = 0 THEN Unassigned
                     ELSE a1.loc.largest_contaminant,
                 !.unique_assigned_contaminant =
                     IF a1.loc.unique_largest_kmers = 0 THEN Unassigned
                     ELSE a1.loc.unique_largest_contaminant]
        r3 == IF kn_gate(c, cmd)
              THEN [kn_scan(r2, c, n, cmd.kmer_threshold_read, 0)
                       EXCEPT !.kn_contaminated_reads = @ + 1]
              ELSE r2
    IN  [rc |-> r3, counts |-> c2]

\* the counters and the KmerCounts that update_stats(r, counts, stats, cmd_line) leaves
update_stats(rc, c, n, cmd) ==
    LET r0 == [rc EXCEPT !.number_of_reads = @ + 1,
                         !.contaminated_kmers_per_read[histogram_index(c)] = @ + 1]
        a1 == IF c.kmers_loaded > 0
              THEN LET s == k1_scan([rc |-> r0, loc |-> read_locals], c, n, 0)
                   IN  [rc |-> [s.rc EXCEPT !.k1_contaminated_reads = @ + 1],
                        loc |-> s.loc]
              ELSE [rc |-> r0, loc |-> read_locals]
        r2 == classify_read(a1.rc, a1.loc)
        c2 == [c EXCEPT
                 !.assigned_contaminant =
                     IF a1.loc.largest_kmers = 0 THEN Unassigned
                     ELSE a1.loc.largest_contaminant,
                 !.unique_assigned_contaminant =
                     IF a1.loc.unique_largest_kmers = 0 THEN Unassigned
                     ELSE a1.loc.unique_largest_contaminant]
        r3 == IF kn_gate(c, cmd)
              THEN [kn_scan(r2, c, n, cmd.kmer_threshold_read, 0)
                       EXCEPT !.kn_contaminated_reads = @ + 1]
              ELSE r2
    IN  [rc |-> r3, counts |-> c2]

(***************************************************************************)
(* update_stats_for_both: the serial paired-read classifier.  Its loop     *)
(* runs the same scan twice per contaminant, on the raw hit counts and on  *)
(* the unique hit counts, each with its own locals.                        *)
(***************************************************************************)
\* the locals of one scan at entry
pair_locals ==
    [threshold_met |-> FALSE,
     largest_contaminant |-> 0,
     largest_kmers |-> 0,
     one_in_both |-> 0,
     one_in_either |-> 0]

\* the condition of the first branch: both mates and the pair reach their thresholds
meets_threshold(a, b, cmd) ==
    /\ a >= cmd.kmer_threshold_read
    /\ b >= cmd.kmer_threshold_read
    /\ a + b >= cmd.kmer_threshold_overall

\* "Is it the best yet?"
track_pair_largest(st, t, i) ==
    IF t > st.largest_kmers
    THEN [st EXCEPT !.largest_kmers = t, !.largest_contaminant = i]
    ELSE st

\* the iteration without the one-in-either branch
pair_scan_step_noeither(st, a, b, i, cmd) ==
    IF meets_threshold(a, b, cmd)
    THEN [track_pair_largest(st, a + b, i) EXCEPT !.threshold_met = TRUE]
    ELSE IF ~st.threshold_met /\ a >= 1 /\ b >= 1
    THEN [track_pair_largest(st, a + b, i) EXCEPT !.one_in_both = @ + 1]
    ELSE st

\* the iteration without the test of threshold_met in front of the two lower branches
pair_scan_step_untested(st, a, b, i, cmd) ==
    IF meets_threshold(a, b, cmd)
    THEN [track_pair_largest(st, a + b, i) EXCEPT !.threshold_met = TRUE]
    ELSE IF a >= 1 /\ b >= 1
    THEN [track_pair_largest(st, a + b, i) EXCEPT !.one_in_both = @ + 1]
    ELSE IF (a >= 1 /\ b = 0) \/ (a = 0 /\ b >= 1)
    THEN [(IF st.one_in_both = 0 THEN track_pair_largest(st, a + b, i) ELSE st)
             EXCEPT !.one_in_either = @ + 1]
    ELSE st

\* one iteration of the loop for contaminant i, whose hit counts in the mates are a and b
pair_scan_step(st, a, b, i, cmd) ==
    IF meets_threshold(a, b, cmd)
    THEN [track_pair_largest(st, a + b, i) EXCEPT !.threshold_met = TRUE]
    ELSE IF ~st.threshold_met
    THEN IF a >= 1 /\ b >= 1
         THEN [track_pair_largest(st, a + b, i) EXCEPT !.one_in_both = @ + 1]
         ELSE IF (a >= 1 /\ b = 0) \/ (a = 0 /\ b >= 1)
         THEN [(IF st.one_in_both = 0 THEN track_pair_largest(st, a + b, i) ELSE st)
                  EXCEPT !.one_in_either = @ + 1]
         ELSE st
    ELSE st

\* the locals after the iterations for contaminants 0 .. k-1
RECURSIVE pair_scan(_, _, _, _)
pair_scan(xa, xb, k, cmd) ==
    IF k <= 0 THEN pair_locals
    ELSE pair_scan_step(pair_scan(xa, xb, k - 1, cmd), xa[k - 1], xb[k - 1], k - 1, cmd)

\* the raw if-chain with independent ifs in place of the else-ifs
update_raw_tier_noelse(b, st) ==
    LET b1 == IF st.threshold_met
              THEN [b EXCEPT !.threshold_passed_reads = @ + 1,
                             !.threshold_passed_reads_by_contaminant[st.largest_contaminant]
                                 = @ + 1]
              ELSE b
        b2 == IF st.one_in_both > 0
              THEN [b1 EXCEPT !.k1_both_reads_not_threshold = @ + 1,
                              !.k1_both_reads_not_threshold_by_contaminant
                                  [st.largest_contaminant] = @ + 1]
              ELSE b1
    IN  IF st.one_in_either > 0
        THEN [b2 EXCEPT !.k1_either_read_not_threshold = @ + 1,
                        !.k1_either_read_not_threshold_by_contaminant
                            [st.largest_contaminant] = @ + 1]
        ELSE b2

\* "Update read counts", for the raw scan
update_raw_tier(b, st) ==
    IF st.threshold_met
    THEN [b EXCEPT !.threshold_passed_reads = @ + 1,
                   !.threshold_passed_reads_by_contaminant[st.largest_contaminant] = @ + 1]
    ELSE IF st.one_in_both > 0
    THEN [b EXCEPT !.k1_both_reads_not_threshold = @ + 1,
                   !.k1_both_reads_not_threshold_by_contaminant[st.largest_contaminant] = @ + 1]
    ELSE IF st.one_in_either > 0
    THEN [b EXCEPT !.k1_either_read_not_threshold = @ + 1,
                   !.k1_either_read_not_threshold_by_contaminant[st.largest_contaminant] = @ + 1]
    ELSE b

\* the unique if-chain raising the scalars and no per-contaminant entry
update_unique_tier_scalars(b, st) ==
    IF st.threshold_met
    THEN [b EXCEPT !.threshold_passed_reads_unique = @ + 1]
    ELSE IF st.one_in_both > 0
    THEN [b EXCEPT !.k1_both_reads_not_threshold_unique = @ + 1]
    ELSE IF st.one_in_either > 0
    THEN [b EXCEPT !.k1_either_read_not_threshold_unique = @ + 1]
    ELSE b

\* the same for the unique scan
update_unique_tier(b, st) ==
    IF st.threshold_met
    THEN [b EXCEPT !.threshold_passed_reads_unique = @ + 1,
                   !.threshold_passed_reads_unique_by_contaminant[st.largest_contaminant] = @ + 1]
    ELSE IF st.one_in_both > 0
    THEN [b EXCEPT !.k1_both_reads_not_threshold_unique = @ + 1,
                   !.k1_both_reads_not_threshold_unique_by_contaminant[st.largest_contaminant] = @ + 1]
    ELSE IF st.one_in_either > 0
    THEN [b EXCEPT !.k1_either_read_not_threshold_unique = @ + 1,
                   !.k1_either_read_not_threshold_unique_by_contaminant[st.largest_contaminant] = @ + 1]
    ELSE b

\* the filter decision without the test of filter_unique
filter_decision_raw(raw, uniq, cmd) ==
    IF uniq.threshold_met THEN TRUE ELSE raw.threshold_met

\* the value of the local filter_read at the return
filter_decision(raw, uniq, cmd) ==
    LET f1 == IF raw.threshold_met /\ cmd.filter_unique = FALSE THEN TRUE ELSE FALSE
    IN  IF uniq.threshold_met THEN TRUE ELSE f1

\* update_stats_for_both with the unique scan reading mate a's raw hit counts
update_stats_for_both_crossed(b, cmd, ca, cb, n) ==
    LET raw == pair_scan(ca.kmers_from_contaminant, cb.kmers_from_contaminant, n, cmd)
        uniq == pair_scan(ca.kmers_from_contaminant,
                          cb.unique_kmers_from_contaminant, n, cmd)
    IN  [both_reads |-> update_unique_tier(update_raw_tier(b, raw), uniq),
         filter_read |-> filter_decision(raw, uniq, cmd)]

\* the counters update_stats_for_both(stats, cmd_line, counts_a, counts_b) leaves, and its result
update_stats_for_both(b, cmd, ca, cb, n) ==
    LET raw == pair_scan(ca.kmers_from_contaminant, cb.kmers_from_contaminant, n, cmd)
        uniq == pair_scan(ca.unique_kmers_from_contaminant,
                          cb.unique_kmers_from_contaminant, n, cmd)
    IN  [both_reads |-> update_unique_tier(update_raw_tier(b, raw), uniq),
         filter_read |-> filter_decision(raw, uniq, cmd)]

(***************************************************************************)
(* The _parallel variants, statement by statement.  A thread is at a       *)
(* critical section cs (named by the source line of its                    *)
(* pthread_mutex_lock) and at one of four operations of it: the lock, the  *)
(* read half of a counter's ++, its write half, the unlock.  Everything a  *)
(* thread does between an unlock and the next lock touches only its own    *)
(* locals and its own KmerCounts, and is part of the unlock step.          *)
(***************************************************************************)
Threads == 1 .. NThreads
Locks == {"read0", "read1", "both_reads"}

\* a counter: a scalar field <<f>> or an element <<f, i>> of an array field
get_cell(st, cell) == IF Len(cell) = 1 THEN st[cell[1]] ELSE st[cell[1]][cell[2]]
put_cell(st, cell, v) ==
    IF Len(cell) = 1 THEN [st EXCEPT ![cell[1]] = v]
    ELSE [st EXCEPT ![cell[1]][cell[2]] = v]

\* the mutex a thread's function takes: stats->read[r]->lock or stats->both_reads->lock
lock_of(th) ==
    IF th.fn = "update_stats_parallel"
    THEN (IF th.r = 0 THEN "read0" ELSE "read1")
    ELSE "both_reads"

\* the first critical section without number_of_reads++
first_section_cells_hist(th) ==
    <<<<"contaminated_kmers_per_read", histogram_index(th.counts)>>>>

\* the counters incremented between the lock of line 150 and its unlock
first_section_cells(th) ==
    <<<<"number_of_reads">>,
      <<"contaminated_kmers_per_read", histogram_index(th.counts)>>>>

\* the counters incremented inside the critical section the thread is at, in order
cs_cells(th) ==
    CASE th.cs = 150 -> first_section_cells(th)
      [] th.cs = 175 -> <<<<"k1_contaminated_reads_by_contaminant", th.i>>>>
      [] th.cs = 181 -> <<<<"k1_unique_contaminated_reads_by_contaminant", th.i>>>>
      [] th.cs = 189 -> <<<<"k1_contaminated_reads">>>>
      [] th.cs = 196 -> <<<<"reads_unclassified">>>>
      [] th.cs = 202 -> <<<<"reads_with_highest_contaminant", th.loc.largest_contaminant>>>>
      [] th.cs = 220 -> <<<<"kn_contaminated_reads_by_contaminant", th.i>>>>
      [] th.cs = 224 -> <<<<"kn_unique_contaminated_reads_by_contaminant", th.i>>>>
      [] th.cs = 231 -> <<<<"kn_contaminated_reads">>>>
      [] th.cs = 419 -> <<<<"threshold_passed_reads">>,
                          <<"threshold_passed_reads_by_contaminant",
                            th.loc.raw.largest_contaminant>>>>
      [] th.cs = 427 -> <<<<"k1_both_reads_not_threshold">>,
                          <<"k1_both_reads_not_threshold_by_contaminant",
                            th.loc.raw.largest_contaminant>>>>
      [] th.cs = 432 -> <<<<"k1_either_read_not_threshold">>,
                          <<"k1_either_read_not_threshold_by_contaminant",
                            th.loc.raw.largest_contaminant>>>>
      [] th.cs = 439 -> <<<<"threshold_passed_reads_unique">>,
                          <<"threshold_passed_reads_unique_by_contaminant",
                            th.loc.uniq.largest_contaminant>>>>
      [] th.cs = 445 -> <<<<"k1_both_reads_not_threshold_unique">>,
                          <<"k1_both_reads_not_threshold_unique_by_contaminant",
                            th.loc.uniq.largest_contaminant>>>>
      [] th.cs = 450 -> <<<<"k1_either_read_not_threshold_unique">>,
                          <<"k1_either_read_not_threshold_unique_by_contaminant",
                            th.loc.uniq.largest_contaminant>>>>

\* the thread at the lock of critical section cs
at_lock(th, line) == [th EXCEPT !.cs = line, !.op = "lock", !.k = 1]
\* the thread returned from its function
returned(th) == [th EXCEPT !.cs = 0, !.op = "done", !.k = 1]

(* update_stats_parallel *)
\* the first loop from index i on: the next contaminant with a hit, or the end of the loop
RECURSIVE par_k1_next(_, _, _)
par_k1_next(th, n, i) ==
    IF i >= n THEN at_lock([th EXCEPT !.i = i], 189)
    ELSE IF th.counts.kmers_from_contaminant[i] > 0
    THEN LET l1 == IF th.counts.kmers_from_contaminant[i] > th.loc.largest_kmers
                   THEN [th.loc EXCEPT
                            !.largest_kmers = th.counts.kmers_from_contaminant[i],
                            !.largest_contaminant = i]
                   ELSE th.loc
             l2 == IF th.counts.unique_kmers_from_contaminant[i] > l1.unique_largest_kmers
                   THEN [l1 EXCEPT
                            !.unique_largest_kmers = th.counts.unique_kmers_from_contaminant[i],
                            !.unique_largest_contaminant = i]
                   ELSE l1
         IN  at_lock([th EXCEPT !.i = i, !.loc = l2], 175)
    ELSE par_k1_next(th, n, i + 1)

\* the classification without the unclassified branch
par_classify_skip(th) ==
    IF th.loc.largest_kmers = 0
    THEN [th EXCEPT !.cs = 196, !.op = "unlock", !.k = 1]
    ELSE at_lock(th, 202)

\* "If we didn't find any kmers, then this is unclassified"
par_classify(th) ==
    IF th.loc.largest_kmers = 0 THEN at_lock(th, 196) ELSE at_lock(th, 202)

\* the second loop from index i on: the next contaminant over the threshold, or the end
RECURSIVE par_kn_next(_, _, _, _)
par_kn_next(th, n, cmd, i) ==
    IF i >= n THEN at_lock([th EXCEPT !.i = i], 231)
    ELSE IF th.counts.kmers_from_contaminant[i] > cmd.kmer_threshold_read
    THEN at_lock([th EXCEPT !.i = i], 220)
    ELSE par_kn_next(th, n, cmd, i + 1)

\* the assignments to counts after the classification, then the threshold test
par_assign(th, n, cmd, assigned) ==
    LET c2 == [th.counts EXCEPT
                  !.assigned_contaminant = assigned,
                  !.unique_assigned_contaminant =
                      IF th.loc.unique_largest_kmers = 0 THEN Unassigned
                      ELSE th.loc.unique_largest_contaminant]
        t2 == [th EXCEPT !.counts = c2]
    IN  IF c2.kmers_loaded >= cmd.kmer_threshold_read
        THEN par_kn_next(t2, n, cmd, 0)
        ELSE returned(t2)

\* what update_stats_parallel does after the unlock of its critical section cs
par_read_after(th, n, cmd) ==
    CASE th.cs = 150 -> IF th.counts.kmers_loaded > 0
                        THEN par_k1_next(th, n, 0)
                        ELSE par_classify(th)
      [] th.cs = 175 -> IF th.counts.contaminants_detected = 1
                        THEN at_lock(th, 181)
                        ELSE par_k1_next(th, n, th.i + 1)
      [] th.cs = 181 -> par_k1_next(th, n, th.i + 1)
      [] th.cs = 189 -> par_classify(th)
      [] th.cs = 196 -> par_assign(th, n, cmd, Unassigned)
      [] th.cs = 202 -> par_assign(th, n, cmd, th.loc.largest_contaminant)
      [] th.cs = 220 -> IF th.counts.contaminants_detected = 1
                        THEN at_lock(th, 224)
                        ELSE par_kn_next(th, n, cmd, th.i + 1)
      [] th.cs = 224 -> par_kn_next(th, n, cmd, th.i + 1)
      [] th.cs = 231 -> returned(th)

\* update_stats_parallel(r, counts, stats, cmd_line) at its first lock
par_read_entry(r, c) ==
    [fn |-> "update_stats_parallel", r |-> r, counts |-> c, counts_b |-> c,
     loc |-> read_locals, i |-> 0, cs |-> 150, op |-> "lock", k |-> 1, tmp |-> 0,
     filter_read |-> FALSE]

(* update_stats_for_both_parallel *)
\* one iteration of its loop, for one of the two scans
par_pair_scan_step(st, a, b, i, cmd) ==
    LET t == a + b
        best == IF t > st.largest_kmers
                THEN [st EXCEPT !.largest_kmers = t, !.largest_contaminant = i]
                ELSE st
    IN  IF (a >= cmd.kmer_threshold_read) /\ (b >= cmd.kmer_threshold_read)
           /\ (t >= cmd.kmer_threshold_overall)
        THEN [best EXCEPT !.threshold_met = TRUE]
        ELSE IF ~st.threshold_met
        THEN IF (a >= 1) /\ (b >= 1)
             THEN [best EXCEPT !.one_in_both = @ + 1]
             ELSE IF ((a >= 1) /\ (b = 0)) \/ ((a = 0) /\ (b >= 1))
             THEN [(IF st.one_in_both = 0 THEN best ELSE st) EXCEPT !.one_in_either = @ + 1]
             ELSE st
        ELSE st

\* its locals after the iterations for contaminants 0 .. k-1
RECURSIVE par_pair_scan(_, _, _, _)
par_pair_scan(xa, xb, k, cmd) ==
    IF k <= 0 THEN pair_locals
    ELSE par_pair_scan_step(par_pair_scan(xa, xb, k - 1, cmd),
                            xa[k - 1], xb[k - 1], k - 1, cmd)

\* the second if-chain, on the unique scan's locals
par_unique_tier(th) ==
    IF th.loc.uniq.threshold_met THEN at_lock(th, 439)
    ELSE IF th.loc.uniq.one_in_both > 0 THEN at_lock(th, 445)
    ELSE IF th.loc.uniq.one_in_either > 0 THEN at_lock(th, 450)
    ELSE returned(th)

\* the first if-chain, on the raw scan's locals
par_raw_tier(th) ==
    IF th.loc.raw.threshold_met THEN at_lock(th, 419)
    ELSE IF th.loc.raw.one_in_both > 0 THEN at_lock(th, 427)
    ELSE IF th.loc.raw.one_in_either > 0 THEN at_lock(th, 432)
    ELSE par_unique_tier(th)

\* what update_stats_for_both_parallel does after the unlock of its critical section cs
par_both_after(th, cmd) ==
    CASE th.cs = 419 -> par_unique_tier(
                            IF cmd.filter_unique = FALSE
                            THEN [th EXCEPT !.filter_read = TRUE] ELSE th)
      [] th.cs = 427 -> par_unique_tier(th)
      [] th.cs = 432 -> par_unique_tier(th)
      [] th.cs = 439 -> returned([th EXCEPT !.filter_read = TRUE])
      [] th.cs = 445 -> returned(th)
      [] th.cs = 450 -> returned(th)

\* update_stats_for_both_parallel(stats, cmd_line, counts_a, counts_b) after its loop
par_both_entry(ca, cb, n, cmd) ==
    par_raw_tier(
        [fn |-> "update_stats_for_both_parallel", r |-> 0, counts |-> ca, counts_b |-> cb,
         loc |-> [raw |-> par_pair_scan(ca.kmers_from_contaminant,
                                        cb.kmers_from_contaminant, n, cmd),
                  uniq |-> par_pair_scan(ca.unique_kmers_from_contaminant,
                                         cb.unique_kmers_from_contaminant, n, cmd)],
         i |-> n, cs |-> 0, op |-> "lock", k |-> 1, tmp |-> 0, filter_read |-> FALSE])

\* what a thread does after the unlock of the critical section it is at
par_after(th, n, cmd) ==
    IF th.fn = "update_stats_parallel" THEN par_read_after(th, n, cmd)
    ELSE par_both_after(th, cmd)

(***************************************************************************)
(* One operation of a thread on the shared state sh = [read, both_reads,   *)
(* lock].  pthread_mutex_lock blocks while another thread holds the mutex. *)
(***************************************************************************)
\* the structure a thread's function updates
structure_of(sh, th) ==
    IF th.fn = "update_stats_parallel" THEN sh.read[th.r] ELSE sh.both_reads
with_structure(sh, th, st) ==
    IF th.fn = "update_stats_parallel"
    THEN [sh EXCEPT !.read[th.r] = st]
    ELSE [sh EXCEPT !.both_reads = st]

\* a mutex that never blocks
can_lock_always(sh, th) == TRUE

\* pthread_mutex_lock can return
can_lock(sh, th) == sh.lock[lock_of(th)] = {}

\* the thread may take a step
par_enabled(sh, th) ==
    /\ th.op \in {"lock", "load", "store", "unlock"}
    /\ th.op = "lock" => can_lock(sh, th)

\* a lock call that returns without taking the mutex
par_lock_missing(sh, th, t) ==
    [th |-> [th EXCEPT !.op = "load"], sh |-> sh]

\* pthread_mutex_lock returns: the thread holds the mutex
par_lock(sh, th, t) ==
    [th |-> [th EXCEPT !.op = "load"],
     sh |-> [sh EXCEPT !.lock[lock_of(th)] = @ \cup {t}]]

\* the read half of a counter's ++
par_load(sh, th) ==
    [th |-> [th EXCEPT !.op = "store",
                       !.tmp = get_cell(structure_of(sh, th), cs_cells(th)[th.k])],
     sh |-> sh]

\* the write half of a counter's ++
par_store(sh, th) ==
    [th |-> IF th.k < Len(cs_cells(th))
            THEN [th EXCEPT !.op = "load", !.k = @ + 1]
            ELSE [th EXCEPT !.op = "unlock"],
     sh |-> with_structure(sh, th,
                put_cell(structure_of(sh, th), cs_cells(th)[th.k], th.tmp + 1))]

\* an unlock that leaves the mutex held
par_unlock_keep(sh, th, t, n, cmd) ==
    [th |-> par_after(th, n, cmd), sh |-> sh]

\* pthread_mutex_unlock, and the thread's own work up to its next lock
par_unlock(sh, th, t, n, cmd) ==
    [th |-> par_after(th, n, cmd),
     sh |-> [sh EXCEPT !.lock[lock_of(th)] = @ \ {t}]]

\* the next operation of a thread
par_step(sh, th, t, n, cmd) ==
    CASE th.op = "lock" -> par_lock(sh, th, t)
      [] th.op = "load" -> par_load(sh, th)
      [] th.op = "store" -> par_store(sh, th)
      [] th.op = "unlock" -> par_unlock(sh, th, t, n, cmd)

\* a call running alone, from its entry to its return
RECURSIVE run_alone(_, _, _, _, _)
run_alone(sh, th, t, n, cmd) ==
    IF th.op = "done" THEN [th |-> th, sh |-> sh]
    ELSE LET nx == par_step(sh, th, t, n, cmd)
         IN  run_alone(nx.sh, nx.th, t, n, cmd)

(***************************************************************************)
(* kmer_stats_calculate.  A _pc field is a double: the quotient of two     *)
(* counters is kept exactly, as a fraction in lowest terms, and a division *)
(* by zero gives the IEEE 754 results, NaN for 0/0 and infinity for x/0.   *)
(***************************************************************************)
RECURSIVE gcd(_, _)
gcd(a, b) == IF b = 0 THEN a ELSE gcd(b, a % b)

\* the double 0 that calloc and the assignment `= 0` leave in a _pc field
zero_pc == [kind |-> "finite", num |-> 0, den |-> 1]

\* (100.0 * (double)x) / (double)y
percent(x, y) ==
    IF y = 0
    THEN [kind |-> (IF x = 0 THEN "nan" ELSE "inf"), num |-> 0, den |-> 1]
    ELSE LET g == gcd(100 * x, y)
         IN  [kind |-> "finite", num |-> (100 * x) \div g, den |-> y \div g]

ZeroPcArray == [i \in CIdx |-> zero_pc]

\* the _pc fields of a KmerStatsReadCounts as calloc leaves them
calloc_read_pc ==
    [k1_contaminaned_reads_pc |-> zero_pc,
     kn_contaminaned_reads_pc |-> zero_pc,
     k1_contaminated_reads_by_contaminant_pc |-> ZeroPcArray,
     k1_unique_contaminated_reads_by_contaminant_pc |-> ZeroPcArray,
     kn_contaminated_reads_by_contaminant_pc |-> ZeroPcArray,
     kn_unique_contaminated_reads_by_contaminant_pc |-> ZeroPcArray,
     contaminant_kmers_seen_pc |-> ZeroPcArray,
     species_read_counts_pc |-> ZeroPcArray,
     species_unclassified_pc |-> zero_pc]

\* the _pc fields of the KmerStatsBothReads as calloc leaves them
calloc_both_pc ==
    [threshold_passed_reads_pc |-> zero_pc,
     k1_both_reads_not_threshold_pc |-> zero_pc,
     k1_either_read_not_threshold_pc |-> zero_pc,
     threshold_passed_reads_pc_unique |-> zero_pc,
     k1_both_reads_not_threshold_pc_unique |-> zero_pc,
     k1_either_read_not_threshold_pc_unique |-> zero_pc,
     contaminant_kmers_seen_pc |-> ZeroPcArray,
     threshold_passed_reads_by_contaminant_pc |-> ZeroPcArray,
     k1_both_reads_not_threshold_by_contaminant_pc |-> ZeroPcArray,
     k1_either_read_not_threshold_by_contaminant_pc |-> ZeroPcArray,
     threshold_passed_reads_unique_by_contaminant_pc |-> ZeroPcArray,
     k1_both_reads_not_threshold_unique_by_contaminant_pc |-> ZeroPcArray,
     k1_either_read_not_threshold_unique_by_contaminant_pc |-> ZeroPcArray]

calloc_pc == [read |-> [r \in Mates |-> calloc_read_pc], both_reads |-> calloc_both_pc]

\* the unclassified block computing the rate whatever the count is
calculate_unclassified_unguarded(acc) ==
    [acc EXCEPT !.pc.species_unclassified_pc =
                    percent(acc.rc.species_unclassified, acc.rc.number_of_reads)]

\* the unclassified block with an else branch that clears number_of_reads
calculate_unclassified_clears_reads(acc) ==
    IF acc.rc.species_unclassified > 0
    THEN [acc EXCEPT !.pc.species_unclassified_pc =
                         percent(acc.rc.species_unclassified, acc.rc.number_of_reads)]
    ELSE [acc EXCEPT !.rc.number_of_reads = 0]

\* if (read->species_unclassified > 0) ... else ..., on acc = [rc, pc]
calculate_unclassified(acc) ==
    IF acc.rc.species_unclassified > 0
    THEN [acc EXCEPT !.pc.species_unclassified_pc =
                         percent(acc.rc.species_unclassified, acc.rc.number_of_reads)]
    ELSE [acc EXCEPT !.rc.species_unclassified = 0]

\* the loop of kmer_stats_calculate_read from contaminant i on
RECURSIVE calculate_read_loop(_, _, _, _, _)
calculate_read_loop(acc, seen, total, n, i) ==
    IF i >= n THEN acc
    ELSE LET rc == acc.rc
             nr == rc.number_of_reads
             p1 == [acc.pc EXCEPT
                      !.k1_contaminated_reads_by_contaminant_pc[i] =
                          percent(rc.k1_contaminated_reads_by_contaminant[i], nr),
                      !.k1_unique_contaminated_reads_by_contaminant_pc[i] =
                          percent(rc.k1_unique_contaminated_reads_by_contaminant[i], nr),
                      !.kn_contaminated_reads_by_contaminant_pc[i] =
                          percent(rc.kn_contaminated_reads_by_contaminant[i], nr),
                      !.kn_unique_contaminated_reads_by_contaminant_pc[i] =
                          percent(rc.kn_unique_contaminated_reads_by_contaminant[i], nr),
                      !.contaminant_kmers_seen_pc[i] = percent(seen[i], total[i]),
                      !.species_read_counts_pc[i] =
                          IF rc.species_read_counts[i] > 0
                          THEN percent(rc.species_read_counts[i], nr)
                          ELSE zero_pc]
         IN  calculate_read_loop(calculate_unclassified([rc |-> rc, pc |-> p1]),
                                 seen, total, n, i + 1)

\* kmer_stats_calculate_read(stats, read): the counters and the _pc fields it leaves
kmer_stats_calculate_read(rc, rates, seen, total, n) ==
    LET p0 == [rates EXCEPT
                 !.k1_contaminaned_reads_pc =
                     percent(rc.k1_contaminated_reads, rc.number_of_reads),
                 !.kn_contaminaned_reads_pc =
                     percent(rc.kn_contaminated_reads, rc.number_of_reads)]
    IN  calculate_read_loop([rc |-> rc, pc |-> p0], seen, total, n, 0)

\* the loop of kmer_stats_calculate_both from contaminant i on
RECURSIVE calculate_both_loop(_, _, _, _, _, _)
calculate_both_loop(rates, b, seen, total, n, i) ==
    IF i >= n THEN rates
    ELSE LET nr == b.number_of_reads
             p1 == [rates EXCEPT
                      !.contaminant_kmers_seen_pc[i] = percent(seen[i], total[i]),
                      !.threshold_passed_reads_by_contaminant_pc[i] =
                          percent(b.threshold_passed_reads_by_contaminant[i], nr),
                      !.k1_both_reads_not_threshold_by_contaminant_pc[i] =
                          percent(b.k1_both_reads_not_threshold_by_contaminant[i], nr),
                      !.k1_either_read_not_threshold_by_contaminant_pc[i] =
                          percent(b.k1_either_read_not_threshold_by_contaminant[i], nr),
                      !.threshold_passed_reads_unique_by_contaminant_pc[i] =
                          percent(b.threshold_passed_reads_unique_by_contaminant[i], nr),
                      !.k1_both_reads_not_threshold_unique_by_contaminant_pc[i] =
                          percent(b.k1_both_reads_not_threshold_unique_by_contaminant[i], nr),
                      !.k1_either_read_not_threshold_unique_by_contaminant_pc[i] =
                          percent(b.k1_either_read_not_threshold_unique_by_contaminant[i],
                                  nr)]
         IN  calculate_both_loop(p1, b, seen, total, n, i + 1)

\* kmer_stats_calculate_both(stats): the _pc fields it leaves
kmer_stats_calculate_both(b, rates, seen, total, n) ==
    LET nr == b.number_of_reads
        p0 == [rates EXCEPT
                 !.threshold_passed_reads_pc = percent(b.threshold_passed_reads, nr),
                 !.k1_both_reads_not_threshold_pc =
                     percent(b.k1_both_reads_not_threshold, nr),
                 !.k1_either_read_not_threshold_pc =
                     percent(b.k1_either_read_not_threshold, nr),
                 !.threshold_passed_reads_pc_unique =
                     percent(b.threshold_passed_reads_unique, nr),
                 !.k1_both_reads_not_threshold_pc_unique =
                     percent(b.k1_both_reads_not_threshold_unique, nr),
                 !.k1_either_read_not_threshold_pc_unique =
                     percent(b.k1_either_read_not_threshold_unique, nr)]
    IN  calculate_both_loop(p0, b, seen, total, n, 0)

(***************************************************************************)
(* kmer_stats_initialise, and the state of the parts a specification does  *)
(* not use.                                                                *)
(***************************************************************************)
kmer_stats_initialise ==
    /\ read = [r \in Mates |-> kmer_stats_read_counts_initialise]
    /\ both_reads = kmer_stats_both_reads_initialise
    /\ kmers_in_common = [i \in CIdx |-> [j \in CIdx |-> 0]]
    /\ unique_kmers = ZeroArray

NoCall ==
    [op |-> "none", r |-> 0, read |-> [r \in Mates |-> kmer_stats_read_counts_initialise],
     both_reads |-> kmer_stats_both_reads_initialise,
     counts |-> [r \in Mates |-> kmer_counts(<<>>)], filter_read |-> FALSE,
     scan |-> <<>>]

NoDriver == done = {} /\ last = NoCall
NoThreads == threads = <<>> /\ lock = [l \in Locks |-> {}] /\ serial = <<>>
NoScan == hash = <<>> /\ visited = <<>>
NoCalc ==
    /\ contaminant_kmers = ZeroArray
    /\ kmers_seen = [read |-> [r \in Mates |-> ZeroArray], both_reads |-> ZeroArray]
    /\ pc = calloc_pc
    /\ calc = <<>>

\* no file opened
NoOutput == [attempted |-> <<>>, failed |-> {}, written |-> {}, exited |-> FALSE]
NoFiles == number_of_files = 0 /\ files = NoOutput

(***************************************************************************)
(* Spec: the serial driver.  The contaminants are loaded, the thresholds   *)
(* set and one pair of reads looked up; the driver then classifies each    *)
(* mate and the pair, once each, calling either variant of the function    *)
(* from its single thread.                                                 *)
(***************************************************************************)
Init ==
    /\ n_contaminants \in 0 .. MAX_CONTAMINANTS
    /\ cmd_line \in CmdLines
    /\ counts \in [Mates -> Inputs(n_contaminants)]
    /\ kmer_stats_initialise
    /\ NoDriver /\ NoThreads /\ NoScan /\ NoCalc /\ NoFiles

ReadCalls == {"update_stats", "update_stats_parallel"}
BothCalls == {"update_stats_for_both", "update_stats_for_both_parallel"}
mate_name(r) == IF r = 0 THEN "read0" ELSE "read1"

\* the record of a call, taken at its entry
call_record(op, r) ==
    [op |-> op, r |-> r, read |-> read, both_reads |-> both_reads,
     counts |-> counts, filter_read |-> FALSE, scan |-> <<>>]

\* the locals of the two scans of a pair call after each iteration (0: at loop entry)
scan_record(op) ==
    [raw |-> [k \in 0 .. n_contaminants |->
                 IF op = "update_stats_for_both"
                 THEN pair_scan(counts[0].kmers_from_contaminant,
                                counts[1].kmers_from_contaminant, k, cmd_line)
                 ELSE par_pair_scan(counts[0].kmers_from_contaminant,
                                    counts[1].kmers_from_contaminant, k, cmd_line)],
     uniq |-> [k \in 0 .. n_contaminants |->
                 IF op = "update_stats_for_both"
                 THEN pair_scan(counts[0].unique_kmers_from_contaminant,
                                counts[1].unique_kmers_from_contaminant, k, cmd_line)
                 ELSE par_pair_scan(counts[0].unique_kmers_from_contaminant,
                                    counts[1].unique_kmers_from_contaminant, k, cmd_line)]]

\* the shared state as the step operators see it
shared == [read |-> read, both_reads |-> both_reads, lock |-> lock]

\* update_stats(r, counts[r], stats, cmd_line)
UpdateStats(r) ==
    /\ mate_name(r) \notin done
    /\ \E res \in {update_stats(read[r], counts[r], n_contaminants, cmd_line)} :
           /\ read' = [read EXCEPT ![r] = res.rc]
           /\ counts' = [counts EXCEPT ![r] = res.counts]
    /\ done' = done \cup {mate_name(r)}
    /\ last' = call_record("update_stats", r)
    /\ UNCHANGED <<calc_vars, io_vars, n_contaminants, cmd_line, both_reads, kmers_in_common, unique_kmers,
                   threads, lock, serial, hash, visited>>

\* update_stats_parallel(r, counts[r], stats, cmd_line), from the driver's only thread
UpdateStatsParallel(r) ==
    /\ mate_name(r) \notin done
    /\ \E res \in {run_alone(shared, par_read_entry(r, counts[r]), 1,
                            n_contaminants, cmd_line)} :
           /\ read' = res.sh.read
           /\ both_reads' = res.sh.both_reads
           /\ lock' = res.sh.lock
           /\ counts' = [counts EXCEPT ![r] = res.th.counts]
    /\ done' = done \cup {mate_name(r)}
    /\ last' = call_record("update_stats_parallel", r)
    /\ UNCHANGED <<calc_vars, io_vars, n_contaminants, cmd_line, kmers_in_common, unique_kmers,
                   threads, serial, hash, visited>>

\* update_stats_for_both(stats, cmd_line, counts[0], counts[1])
UpdateStatsForBoth ==
    /\ "both" \notin done
    /\ \E res \in {update_stats_for_both(both_reads, cmd_line, counts[0], counts[1],
                                           n_contaminants)} :
           /\ both_reads' = res.both_reads
           /\ last' = [call_record("update_stats_for_both", 0)
                          EXCEPT !.filter_read = res.filter_read,
                                 !.scan = scan_record("update_stats_for_both")]
    /\ done' = done \cup {"both"}
    /\ UNCHANGED <<calc_vars, io_vars, n_contaminants, cmd_line, read, kmers_in_common, unique_kmers, counts,
                   threads, lock, serial, hash, visited>>

\* update_stats_for_both_parallel(stats, cmd_line, counts[0], counts[1]), from the only thread
UpdateStatsForBothParallel ==
    /\ "both" \notin done
    /\ \E res \in {run_alone(shared,
                            par_both_entry(counts[0], counts[1], n_contaminants, cmd_line),
                            1, n_contaminants, cmd_line)} :
           /\ read' = res.sh.read
           /\ both_reads' = res.sh.both_reads
           /\ lock' = res.sh.lock
           /\ last' = [call_record("update_stats_for_both_parallel", 0)
                          EXCEPT !.filter_read = res.th.filter_read,
                                 !.scan = scan_record("update_stats_for_both_parallel")]
    /\ done' = done \cup {"both"}
    /\ UNCHANGED <<calc_vars, io_vars, n_contaminants, cmd_line, kmers_in_common, unique_kmers, counts,
                   threads, serial, hash, visited>>

Next ==
    \/ \E r \in Mates : UpdateStats(r)
    \/ \E r \in Mates : UpdateStatsParallel(r)
    \/ UpdateStatsForBoth
    \/ UpdateStatsForBothParallel

Spec == Init /\ [][Next]_vars

(***************************************************************************)
(* SpecPar: NThreads workers, each with one call of a _parallel variant    *)
(* to make on reads of its own, all against the same counters.  serial     *)
(* holds what the serial variant leaves when it is run on the same jobs,   *)
(* one after the other, in the order the workers enter their calls.        *)
(***************************************************************************)
\* the reads the workers classify: MaxKmers k-mers each; for a pair, each k-mer a hit
ParReads(n) == {kmer_counts(s) : s \in [1 .. MaxKmers -> SUBSET (0 .. (n - 1))]}
ParPairReads(n) ==
    {kmer_counts(s) : s \in [1 .. MaxKmers -> (SUBSET (0 .. (n - 1))) \ {{}}]}

\* the thresholds of the parallel runs
ParCmdLines ==
    {c \in CmdLines : c.kmer_threshold_read = 1 /\ c.kmer_threshold_overall = 3
                      /\ c.filter_unique = FALSE}

\* a worker about to call fn on its reads
pending(fn, r, ca, cb) ==
    [fn |-> fn, r |-> r, counts |-> ca, counts_b |-> cb,
     loc |-> read_locals, i |-> 0, cs |-> 0, op |-> "call", k |-> 1, tmp |-> 0,
     filter_read |-> FALSE]

InitPar ==
    /\ n_contaminants = MAX_CONTAMINANTS
    /\ cmd_line \in ParCmdLines
    /\ \/ \E r \in Mates :
            threads \in [Threads ->
                {pending("update_stats_parallel", r, c, c) : c \in ParReads(n_contaminants)}]
       \/ threads \in [Threads ->
                {pending("update_stats_for_both_parallel", 0, p[1], p[2]) :
                    p \in ParPairReads(n_contaminants) \X ParPairReads(n_contaminants)}]
    /\ kmer_stats_initialise
    /\ lock = [l \in Locks |-> {}]
    /\ serial = [read |-> read, both_reads |-> both_reads,
                 counts |-> [t \in Threads |-> threads[t].counts],
                 filter_read |-> [t \in Threads |-> FALSE]]
    /\ counts = [r \in Mates |-> kmer_counts(<<>>)]
    /\ NoDriver /\ NoScan /\ NoCalc /\ NoFiles

\* the serial variant of a worker's call, applied to the serial counters
serial_call(sr, th, t, n, cmd) ==
    IF th.fn = "update_stats_parallel"
    THEN LET res == update_stats(sr.read[th.r], th.counts, n, cmd)
         IN  [sr EXCEPT !.read[th.r] = res.rc, !.counts[t] = res.counts]
    ELSE LET res == update_stats_for_both(sr.both_reads, cmd, th.counts, th.counts_b, n)
         IN  [sr EXCEPT !.both_reads = res.both_reads, !.filter_read[t] = res.filter_read]

\* the worker enters its function and runs to the first pthread_mutex_lock
entry(th, n, cmd) ==
    IF th.fn = "update_stats_parallel"
    THEN par_read_entry(th.r, th.counts)
    ELSE par_both_entry(th.counts, th.counts_b, n, cmd)

ParUnchanged == UNCHANGED <<calc_vars, io_vars, n_contaminants, cmd_line, kmers_in_common, unique_kmers,
                            counts, done, last, hash, visited>>

Call(t) ==
    /\ threads[t].op = "call"
    /\ threads' = [threads EXCEPT ![t] = entry(threads[t], n_contaminants, cmd_line)]
    /\ serial' = serial_call(serial, threads[t], t, n_contaminants, cmd_line)
    /\ UNCHANGED <<read, both_reads, lock>>
    /\ ParUnchanged

\* the step of worker t that par_step describes, when the worker is at operation op
Step(t, op) ==
    /\ threads[t].op = op
    /\ par_enabled(shared, threads[t])
    /\ \E nx \in {par_step(shared, threads[t], t, n_contaminants, cmd_line)} :
           /\ threads' = [threads EXCEPT ![t] = nx.th]
           /\ read' = nx.sh.read
           /\ both_reads' = nx.sh.both_reads
           /\ lock' = nx.sh.lock
    /\ UNCHANGED serial
    /\ ParUnchanged

Lock(t) == Step(t, "lock")
Load(t) == Step(t, "load")
Store(t) == Step(t, "store")
Unlock(t) == Step(t, "unlock")

NextPar ==
    \E t \in Threads : Call(t) \/ Lock(t) \/ Load(t) \/ Store(t) \/ Unlock(t)

SpecPar == InitPar /\ [][NextPar]_vars

\* the workers under a scheduler that does not leave a runnable thread waiting forever
WorkerStep(t) == Call(t) \/ Lock(t) \/ Load(t) \/ Store(t) \/ Unlock(t)
Fairness == \A t \in Threads : WF_vars(WorkerStep(t))
SpecParFair == InitPar /\ [][NextPar]_vars /\ Fairness

(***************************************************************************)
(* The similarity scanner.  A node of the hash table is a stored k-mer     *)
(* with the set of contaminants it belongs to; hash_table_traverse_with_   *)
(* data (hash_table.c) calls the callback once on every node.              *)
(***************************************************************************)
\* element.h: the flag of contaminant i in a node
element_get_contaminant_bit(node, i) == IF i \in node THEN 1 ELSE 0

\* the inner loop without the mirrored increment of [j][i]
RECURSIVE common_columns_nomirror(_, _, _, _, _)
common_columns_nomirror(m, node, n, i, j) ==
    IF j >= n THEN m
    ELSE IF element_get_contaminant_bit(node, j) > 0
    THEN common_columns_nomirror([m EXCEPT ![i][j] = @ + 1], node, n, i, j + 1)
    ELSE common_columns_nomirror(m, node, n, i, j + 1)

\* the inner loop of check_kmers_in_common, from column j on
RECURSIVE common_columns(_, _, _, _, _)
common_columns(m, node, n, i, j) ==
    IF j >= n THEN m
    ELSE IF element_get_contaminant_bit(node, j) > 0
    THEN LET m1 == [m EXCEPT ![i][j] = @ + 1]
             m2 == IF i # j THEN [m1 EXCEPT ![j][i] = @ + 1] ELSE m1
         IN  common_columns(m2, node, n, i, j + 1)
    ELSE common_columns(m, node, n, i, j + 1)

\* the outer loop of check_kmers_in_common, from row i on
RECURSIVE common_rows(_, _, _, _)
common_rows(m, node, n, i) ==
    IF i >= n THEN m
    ELSE IF element_get_contaminant_bit(node, i) > 0
    THEN common_rows(common_columns(m, node, n, i, i), node, n, i + 1)
    ELSE common_rows(m, node, n, i + 1)

\* stats->kmers_in_common after check_kmers_in_common(node, stats)
check_kmers_in_common(m, node, n) == common_rows(m, node, n, 0)

\* the loop of check_unique_kmers from index i on: it stops at the second flag set
RECURSIVE unique_scan(_, _, _, _)
unique_scan(acc, node, n, i) ==
    IF i >= n THEN acc
    ELSE IF element_get_contaminant_bit(node, i) > 0
    THEN LET a1 == [index |-> i, count |-> acc.count + 1]
         IN  IF a1.count > 1 THEN a1 ELSE unique_scan(a1, node, n, i + 1)
    ELSE unique_scan(acc, node, n, i + 1)

\* check_unique_kmers with count >= 1 for count == 1
check_unique_kmers_nonzero(u, node, n) ==
    LET a == unique_scan([index |-> 0, count |-> 0], node, n, 0)
    IN  IF a.count >= 1 THEN [u EXCEPT ![a.index] = @ + 1] ELSE u

\* stats->unique_kmers after check_unique_kmers(node, stats)
check_unique_kmers(u, node, n) ==
    LET a == unique_scan([index |-> 0, count |-> 0], node, n, 0)
    IN  IF a.count = 1 THEN [u EXCEPT ![a.index] = @ + 1] ELSE u

(***************************************************************************)
(* SpecScan: kmer_stats_compare_contaminant_kmers on a table of at most    *)
(* MaxTableKmers k-mers.  visited.pc is the position in the function,      *)
(* visited.common and visited.unique the nodes each traversal has handed   *)
(* to its callback.  files.attempted holds the names fopen was called      *)
(* with, in order; an fopen succeeds or returns NULL.                      *)
(***************************************************************************)
\* the four output files, in the order of their fopen calls
SimilarityFiles ==
    <<"kmer_similarity_absolute.txt", "kmer_similarity_pc.txt",
      "kmer_unique_absolute.txt", "kmer_unique_pc.txt">>

\* the test at the head of the function with 1 for 2
too_few_contaminants_one(n) == n < 1

\* if (stats->n_contaminants < 2) return;
too_few_contaminants(n) == n < 2

\* fp = fopen(name, "w"); if (!fp) { printf("Error: can't open ..."); exit(1); }
open_output(fs, name, ok) ==
    IF ok
    THEN [fs EXCEPT !.attempted = Append(@, name)]
    ELSE [fs EXCEPT !.attempted = Append(@, name), !.failed = @ \cup {name},
                    !.exited = TRUE]

Tables(n) == UNION {[1 .. m -> SUBSET (0 .. (n - 1))] : m \in 0 .. MaxTableKmers}
Nodes == 1 .. Len(hash)

InitScan ==
    /\ n_contaminants \in 0 .. MAX_CONTAMINANTS
    /\ hash \in Tables(n_contaminants)
    /\ visited = [pc |-> "entry", common |-> {}, unique |-> {}]
    /\ cmd_line \in ParCmdLines
    /\ counts = [r \in Mates |-> kmer_counts(<<>>)]
    /\ kmer_stats_initialise
    /\ NoDriver /\ NoThreads /\ NoCalc /\ NoFiles

ScanUnchanged == UNCHANGED <<calc_vars, number_of_files, n_contaminants, cmd_line, read, both_reads, counts, done, last,
                             threads, lock, serial, hash>>

\* the test on n_contaminants at the head of the function
CompareEntry ==
    /\ visited.pc = "entry"
    /\ visited' = [visited EXCEPT
                       !.pc = IF too_few_contaminants(n_contaminants) THEN "return"
                              ELSE "open"]
    /\ UNCHANGED <<kmers_in_common, unique_kmers, files>>
    /\ ScanUnchanged

\* the next of the four fopen calls, which succeeds or fails
OpenOutput ==
    /\ visited.pc = "open"
    /\ \E ok \in BOOLEAN :
           \E fs \in {open_output(files, SimilarityFiles[Len(files.attempted) + 1], ok)} :
               /\ files' = fs
               /\ visited' = [visited EXCEPT
                                  !.pc = IF fs.exited THEN "exit"
                                         ELSE IF Len(fs.attempted) = Len(SimilarityFiles)
                                         THEN "common"
                                         ELSE "open"]
    /\ UNCHANGED <<kmers_in_common, unique_kmers>>
    /\ ScanUnchanged

\* hash_table_traverse_with_data(&check_kmers_in_common, stats, hash) reaches node k
VisitCommon(k) ==
    /\ visited.pc = "common"
    /\ k \notin visited.common
    /\ kmers_in_common' = check_kmers_in_common(kmers_in_common, hash[k], n_contaminants)
    /\ visited' = [visited EXCEPT !.common = @ \cup {k}]
    /\ UNCHANGED <<unique_kmers, files>>
    /\ ScanUnchanged

\* the first traversal returns
EndCommon ==
    /\ visited.pc = "common"
    /\ visited.common = Nodes
    /\ visited' = [visited EXCEPT !.pc = "unique"]
    /\ UNCHANGED <<kmers_in_common, unique_kmers, files>>
    /\ ScanUnchanged

\* hash_table_traverse_with_data(&check_unique_kmers, stats, hash) reaches node k
VisitUnique(k) ==
    /\ visited.pc = "unique"
    /\ k \notin visited.unique
    /\ unique_kmers' = check_unique_kmers(unique_kmers, hash[k], n_contaminants)
    /\ visited' = [visited EXCEPT !.unique = @ \cup {k}]
    /\ UNCHANGED <<kmers_in_common, files>>
    /\ ScanUnchanged

\* the second traversal returns; the four files are written and closed
EndUnique ==
    /\ visited.pc = "unique"
    /\ visited.unique = Nodes
    /\ visited' = [visited EXCEPT !.pc = "report"]
    /\ files' = [files EXCEPT !.written = {SimilarityFiles[k] : k \in DOMAIN SimilarityFiles}]
    /\ UNCHANGED <<kmers_in_common, unique_kmers>>
    /\ ScanUnchanged

NextScan ==
    \/ CompareEntry
    \/ OpenOutput
    \/ \E k \in Nodes : VisitCommon(k)
    \/ EndCommon
    \/ \E k \in Nodes : VisitUnique(k)
    \/ EndUnique

SpecScan == InitScan /\ [][NextScan]_vars

(***************************************************************************)
(* SpecCalc: reads and pairs are classified by the serial variants and     *)
(* kmer_stats_calculate is called, in any order.  The reference k-mer      *)
(* totals and the k-mers seen are what the loader left, the same k-mers    *)
(* seen in each structure.  calc holds the number of calls made, how many  *)
(* calls of kmer_stats_calculate were made in a row, and the counters and  *)
(* _pc fields at the entry of the latest.                                  *)
(***************************************************************************)
\* the reads classified: at most MaxCalcKmers k-mers each
CalcInputs(n) == {c \in Inputs(n) : c.kmers_loaded <= MaxCalcKmers}

\* the counters and _pc fields kmer_stats_calculate reads and writes
calc_state == [read |-> read, both_reads |-> both_reads, pc |-> pc]

InitCalc ==
    /\ n_contaminants \in 0 .. MAX_CONTAMINANTS
    /\ cmd_line \in ParCmdLines
    /\ kmer_stats_initialise
    /\ contaminant_kmers \in
           {t \in [CIdx -> 0 .. MaxRefKmers] : \A i \in CIdx : i >= n_contaminants => t[i] = 0}
    /\ kmers_seen \in
           {[read |-> [r \in Mates |-> k], both_reads |-> k] :
               k \in {a \in [CIdx -> 0 .. MaxRefKmers] :
                         \A i \in CIdx : a[i] <= contaminant_kmers[i]}}
    /\ pc = calloc_pc
    /\ counts = [r \in Mates |-> kmer_counts(<<>>)]
    /\ calc = [calls |-> 0, reads |-> 0, pairs |-> 0, row |-> 0,
               before |-> [read |-> read, both_reads |-> both_reads, pc |-> calloc_pc]]
    /\ NoDriver /\ NoThreads /\ NoScan /\ NoFiles

CalcUnchanged ==
    UNCHANGED <<n_contaminants, cmd_line, kmers_in_common, unique_kmers, counts, done, last,
                threads, lock, serial, hash, visited, contaminant_kmers, kmers_seen,
                number_of_files, files>>

\* update_stats(stats, cmd_line, counts, r) on the next read of mate r
Classify(r) ==
    /\ calc.reads < MaxReads
    /\ \E c \in CalcInputs(n_contaminants) :
           read' = [read EXCEPT ![r] = update_stats(read[r], c, n_contaminants, cmd_line).rc]
    /\ calc' = [calc EXCEPT !.row = 0, !.reads = @ + 1]
    /\ UNCHANGED <<both_reads, pc>>
    /\ CalcUnchanged

\* update_stats_for_both(stats, cmd_line, counts_a, counts_b) on the next pair
ClassifyBoth ==
    /\ calc.pairs < MaxPairs
    /\ \E ca \in CalcInputs(n_contaminants), cb \in CalcInputs(n_contaminants) :
           both_reads' = update_stats_for_both(both_reads, cmd_line, ca, cb,
                                               n_contaminants).both_reads
    /\ calc' = [calc EXCEPT !.row = 0, !.pairs = @ + 1]
    /\ UNCHANGED <<read, pc>>
    /\ CalcUnchanged

\* kmer_stats_calculate(stats)
Calculate ==
    /\ calc.calls < MaxCalcCalls
    /\ \E res \in {[r \in Mates |->
                      kmer_stats_calculate_read(read[r], pc.read[r], kmers_seen.read[r],
                                                contaminant_kmers, n_contaminants)]} :
           /\ read' = [r \in Mates |-> res[r].rc]
           /\ pc' = [read |-> [r \in Mates |-> res[r].pc],
                     both_reads |->
                         kmer_stats_calculate_both(both_reads, pc.both_reads,
                                                   kmers_seen.both_reads, contaminant_kmers,
                                                   n_contaminants)]
    /\ calc' = [calc EXCEPT !.calls = @ + 1, !.row = @ + 1, !.before = calc_state]
    /\ UNCHANGED both_reads
    /\ CalcUnchanged

NextCalc ==
    \/ \E r \in Mates : Classify(r)
    \/ ClassifyBoth
    \/ Calculate

SpecCalc == InitCalc /\ [][NextCalc]_vars

(***************************************************************************)
(* SpecProgress: kmer_stats_write_progress is called once, after none, one *)
(* or both mates' reads were classified.  Each step of the call is one     *)
(* fopen, which succeeds or returns NULL, with the fprintf and fclose       *)
(* calls that follow a success.                                            *)
(***************************************************************************)
\* the names built by the three sprintf calls of an iteration, for r = 0 and r = 1
ProgressNames ==
    <<"data_overall_r1.txt", "data_per_contaminant_r1.txt", "largest_contaminant_r1.txt",
      "data_overall_r2.txt", "data_per_contaminant_r2.txt", "largest_contaminant_r2.txt">>

\* the files of a call: three for each r < number_of_files
ProgressFiles(nf) == SubSeq(ProgressNames, 1, nf * (Len(ProgressNames) \div Cardinality(Mates)))

\* the step of a file with exit(1) in its else branch
progress_file_exit(fs, name, ok) ==
    IF ok
    THEN [fs EXCEPT !.attempted = Append(@, name), !.written = @ \cup {name}]
    ELSE [fs EXCEPT !.attempted = Append(@, name), !.failed = @ \cup {name},
                    !.exited = TRUE]

\* fp = fopen(filename, "w"); if (fp) { fprintf ...; fclose(fp); } else { printf("Error ...") }
progress_file(fs, name, ok) ==
    IF ok
    THEN [fs EXCEPT !.attempted = Append(@, name), !.written = @ \cup {name}]
    ELSE [fs EXCEPT !.attempted = Append(@, name), !.failed = @ \cup {name}]

InitProgress ==
    /\ n_contaminants \in 0 .. MAX_CONTAMINANTS
    /\ cmd_line \in ParCmdLines
    /\ counts \in {[r \in Mates |-> c] : c \in Inputs(n_contaminants)}
    /\ kmer_stats_initialise
    /\ number_of_files \in 0 .. Cardinality(Mates)
    /\ files = NoOutput
    /\ NoDriver /\ NoThreads /\ NoScan /\ NoCalc

\* update_stats on the read of mate r, before the call of kmer_stats_write_progress
ProgressClassify(r) ==
    /\ "progress" \notin done
    /\ UpdateStats(r)

\* kmer_stats_write_progress(stats, cmd_line) up to its loop
WriteProgressEntry ==
    /\ "progress" \notin done
    /\ done' = done \cup {"progress"}
    /\ last' = call_record("kmer_stats_write_progress", 0)
    /\ UNCHANGED <<calc_vars, io_vars, n_contaminants, cmd_line, read, both_reads,
                   kmers_in_common, unique_kmers, counts, threads, lock, serial, hash,
                   visited>>

\* the next file of the loop
WriteProgressFile ==
    /\ "progress" \in done
    /\ ~files.exited
    /\ Len(files.attempted) < Len(ProgressFiles(number_of_files))
    /\ \E ok \in BOOLEAN :
           files' = progress_file(files,
                                  ProgressFiles(number_of_files)[Len(files.attempted) + 1],
                                  ok)
    /\ UNCHANGED <<calc_vars, number_of_files, n_contaminants, cmd_line, read, both_reads,
                   kmers_in_common, unique_kmers, counts, done, last, threads, lock, serial,
                   hash, visited>>

NextProgress ==
    \/ \E r \in Mates : ProgressClassify(r)
    \/ WriteProgressEntry
    \/ WriteProgressFile

SpecProgress == InitProgress /\ [][NextProgress]_vars

(***************************************************************************)
(* Properties of the serial driver (Spec).  last holds the entry state of  *)
(* the latest call, its result and, for a pair call, the scan locals.      *)
(***************************************************************************)
Cs == 0 .. (n_contaminants - 1)

\* the three raw-tier scalars of the pair counters, and the three unique-tier ones
raw_tier_scalars(b) ==
    <<b.threshold_passed_reads, b.k1_both_reads_not_threshold, b.k1_either_read_not_threshold>>
unique_tier_scalars(b) ==
    <<b.threshold_passed_reads_unique, b.k1_both_reads_not_threshold_unique,
      b.k1_either_read_not_threshold_unique>>

\* how many of three scalars the latest call raised, provided each moved by 0 or 1
raised(before, after) ==
    IF \A x \in 1 .. 3 : after[x] - before[x] \in {0, 1}
    THEN Cardinality({x \in 1 .. 3 : after[x] = before[x] + 1})
    ELSE 4

\* the hit counts of the pair in one family: mate m, contaminant i
pair_hits(family, m) ==
    IF family = "raw" THEN last.counts[m].kmers_from_contaminant
    ELSE last.counts[m].unique_kmers_from_contaminant

\* contaminant i meets the tier-1 condition in a family
tier_one(family, i) ==
    /\ pair_hits(family, 0)[i] >= cmd_line.kmer_threshold_read
    /\ pair_hits(family, 1)[i] >= cmd_line.kmer_threshold_read
    /\ pair_hits(family, 0)[i] + pair_hits(family, 1)[i] >= cmd_line.kmer_threshold_overall

\* some contaminant has a hit in a mate, or meets the tier-1 condition
any_evidence(family) ==
    \E i \in Cs : \/ pair_hits(family, 0)[i] > 0
                  \/ pair_hits(family, 1)[i] > 0
                  \/ tier_one(family, i)

\* C2 as stated: every pair call raises exactly one raw-tier scalar and exactly one
\* unique-tier scalar.
C2_ExactlyOnePerTier ==
    last.op \in BothCalls =>
        /\ raised(raw_tier_scalars(last.both_reads), raw_tier_scalars(both_reads)) = 1
        /\ raised(unique_tier_scalars(last.both_reads), unique_tier_scalars(both_reads)) = 1

\* C2, amended: a pair call raises at most one of the three raw-tier scalars, by one, and
\* at most one of the three unique-tier scalars; it raises none in a family exactly when
\* no contaminant has a hit of that family in either mate or meets the tier-1 condition.
C2_AtMostOnePerTier ==
    last.op \in BothCalls =>
        /\ raised(raw_tier_scalars(last.both_reads), raw_tier_scalars(both_reads))
             = (IF any_evidence("raw") THEN 1 ELSE 0)
        /\ raised(unique_tier_scalars(last.both_reads), unique_tier_scalars(both_reads))
             = (IF any_evidence("unique") THEN 1 ELSE 0)

\* a serial pair call that raised one raw-tier scalar and no unique-tier scalar
C2_Witness ==
    /\ last.op = "update_stats_for_both"
    /\ raised(raw_tier_scalars(last.both_reads), raw_tier_scalars(both_reads)) = 1
    /\ raised(unique_tier_scalars(last.both_reads), unique_tier_scalars(both_reads)) = 0
    /\ ~any_evidence("unique")

\* C3: the value a pair call returns is TRUE exactly when some contaminant meets the
\* tier-1 condition on the unique hits, or some contaminant meets it on the raw hits and
\* filter_unique is off.
C3_FilterDecision ==
    last.op \in BothCalls =>
        (last.filter_read <=>
            \/ \E i \in Cs : tier_one("unique", i)
            \/ (\E i \in Cs : tier_one("raw", i)) /\ ~cmd_line.filter_unique)

\* a pair that passes on raw hits only is kept when filter_unique is on
C3_Witness ==
    /\ last.op \in BothCalls
    /\ \E i \in Cs : tier_one("raw", i)
    /\ ~\E i \in Cs : tier_one("unique", i)
    /\ cmd_line.filter_unique
    /\ ~last.filter_read

\* the scan locals of a family after the iterations 0 .. k-1
scan_at(family, k) == IF family = "raw" THEN last.scan.raw[k] ELSE last.scan.uniq[k]

\* C4: in either scan of a pair call, once a contaminant k has met the tier-1 condition,
\* the iteration for a later contaminant j leaves one_in_both and one_in_either as they
\* are and leaves the best contaminant as it is unless j itself meets tier 1; up to the
\* first tier-1 contaminant every contaminant with hits in both mates adds one to
\* one_in_both and every contaminant with hits in one mate adds one to one_in_either.
C4_TierTwoSuppressed ==
    last.op \in BothCalls =>
        \A family \in {"raw", "unique"} : \A j \in Cs :
            LET a == pair_hits(family, 0)[j]
                b == pair_hits(family, 1)[j]
                pre == scan_at(family, j)
                post == scan_at(family, j + 1)
            IN  IF \E k \in 0 .. (j - 1) : tier_one(family, k)
                THEN /\ post.one_in_both = pre.one_in_both
                     /\ post.one_in_either = pre.one_in_either
                     /\ ~tier_one(family, j) =>
                            /\ post.largest_contaminant = pre.largest_contaminant
                            /\ post.largest_kmers = pre.largest_kmers
                ELSE ~tier_one(family, j) =>
                     /\ post.one_in_both
                          = pre.one_in_both + (IF a >= 1 /\ b >= 1 THEN 1 ELSE 0)
                     /\ post.one_in_either
                          = pre.one_in_either + (IF (a >= 1) # (b >= 1) THEN 1 ELSE 0)

\* contaminant 0 meets tier 1 and contaminant 1, with hits in both mates, is not tallied
C4_Witness ==
    /\ last.op = "update_stats_for_both"
    /\ n_contaminants = 2
    /\ tier_one("raw", 0)
    /\ ~tier_one("raw", 1)
    /\ pair_hits("raw", 0)[1] >= 1
    /\ pair_hits("raw", 1)[1] >= 1
    /\ last.scan.raw[2].one_in_both = 0
    /\ last.scan.raw[2].largest_contaminant = 0

\* C5: a single-read call on a read with kmers_loaded > 0 and a positive largest raw hit
\* count sets assigned_contaminant to the lowest index holding that largest count, and
\* adds one to reads_with_highest_contaminant at that index.
C5_FirstLargestAssigned ==
    last.op \in ReadCalls =>
        LET raw == last.counts[last.r].kmers_from_contaminant
        IN  (last.counts[last.r].kmers_loaded > 0 /\ \E i \in Cs : raw[i] > 0) =>
                \E m \in Cs :
                    /\ \A i \in Cs : raw[i] <= raw[m]
                    /\ \A i \in 0 .. (m - 1) : raw[i] < raw[m]
                    /\ counts[last.r].assigned_contaminant = m
                    /\ read[last.r].reads_with_highest_contaminant[m]
                         = last.read[last.r].reads_with_highest_contaminant[m] + 1

\* two contaminants tie on a positive count and the read goes to contaminant 0
C5_Witness ==
    /\ last.op = "update_stats"
    /\ n_contaminants = 2
    /\ last.counts[last.r].kmers_from_contaminant[0] > 0
    /\ last.counts[last.r].kmers_from_contaminant[0]
         = last.counts[last.r].kmers_from_contaminant[1]
    /\ counts[last.r].assigned_contaminant = 0

\* the shared state at the entry of the latest call
entry_state == [read |-> last.read, both_reads |-> last.both_reads, lock |-> lock]

\* C7: a call of either variant, run with no other thread, leaves the counters, the
\* annotations of the read and the returned filter decision that the other variant
\* leaves when it is called in the same state on the same input.
C7_VariantsAgree ==
    /\ last.op = "update_stats" =>
          \E alt \in {run_alone(entry_state, par_read_entry(last.r, last.counts[last.r]),
                                1, n_contaminants, cmd_line)} :
              /\ alt.sh.read = read
              /\ alt.sh.both_reads = both_reads
              /\ alt.th.counts = counts[last.r]
    /\ last.op = "update_stats_parallel" =>
          \E alt \in {update_stats(last.read[last.r], last.counts[last.r],
                                   n_contaminants, cmd_line)} :
              /\ read = [last.read EXCEPT ![last.r] = alt.rc]
              /\ both_reads = last.both_reads
              /\ counts = [last.counts EXCEPT ![last.r] = alt.counts]
    /\ last.op = "update_stats_for_both" =>
          \E alt \in {run_alone(entry_state,
                                par_both_entry(last.counts[0], last.counts[1],
                                               n_contaminants, cmd_line),
                                1, n_contaminants, cmd_line)} :
              /\ alt.sh.both_reads = both_reads
              /\ alt.sh.read = read
              /\ alt.th.filter_read = last.filter_read
              /\ counts = last.counts
    /\ last.op = "update_stats_for_both_parallel" =>
          \E alt \in {update_stats_for_both(last.both_reads, cmd_line, last.counts[0],
                                            last.counts[1], n_contaminants)} :
              /\ alt.both_reads = both_reads
              /\ read = last.read
              /\ alt.filter_read = last.filter_read
              /\ counts = last.counts

\* both mates and the pair are classified, the pair by the parallel variant, which
\* passes it; mate 0 has two contaminants tied on unique hits
C7_Witness ==
    /\ done = {"read0", "read1", "both"}
    /\ last.op = "update_stats_for_both_parallel"
    /\ last.filter_read
    /\ both_reads.threshold_passed_reads = 1
    /\ n_contaminants = 2
    /\ counts[0].unique_kmers_from_contaminant[0] = 1
    /\ counts[0].unique_kmers_from_contaminant[1] = 1
    /\ counts[0].unique_assigned_contaminant = 0

\* the contaminant whose entry of a per-contaminant array the latest call raised by one
credited(before, after, m) ==
    /\ after[m] = before[m] + 1
    /\ \A i \in CIdx \ {m} : after[i] = before[i]

\* the combined hit count of contaminant i in a family
pair_total(family, i) == pair_hits(family, 0)[i] + pair_hits(family, 1)[i]

\* m is the tier-1 contaminant of a family with the highest combined count, lowest index
best_tier_one(family, m) ==
    /\ m \in Cs
    /\ tier_one(family, m)
    /\ \A i \in Cs : tier_one(family, i) => pair_total(family, i) <= pair_total(family, m)
    /\ \A i \in 0 .. (m - 1) :
           tier_one(family, i) => pair_total(family, i) < pair_total(family, m)

\* C17: when a pair call ends with a family threshold-met, the contaminant whose
\* threshold_passed_reads_by_contaminant (or _unique_by_contaminant) entry it raises
\* meets the tier-1 condition and has the highest combined count among the tier-1
\* contaminants, the lowest index winning ties.
C17_BestQualifierCredited ==
    last.op \in BothCalls =>
        /\ (\E i \in Cs : tier_one("raw", i)) =>
              \E m \in Cs :
                  /\ best_tier_one("raw", m)
                  /\ credited(last.both_reads.threshold_passed_reads_by_contaminant,
                              both_reads.threshold_passed_reads_by_contaminant, m)
        /\ (\E i \in Cs : tier_one("unique", i)) =>
              \E m \in Cs :
                  /\ best_tier_one("unique", m)
                  /\ credited(last.both_reads.threshold_passed_reads_unique_by_contaminant,
                              both_reads.threshold_passed_reads_unique_by_contaminant, m)

\* a family ends in the both-not-threshold outcome
both_not_threshold(family) ==
    /\ ~\E i \in Cs : tier_one(family, i)
    /\ \E i \in Cs : pair_hits(family, 0)[i] >= 1 /\ pair_hits(family, 1)[i] >= 1

\* C18: when a pair call ends a family in the both-not-threshold outcome, the contaminant
\* whose k1_both_reads_not_threshold_by_contaminant (or _unique_by_contaminant) entry it
\* raises has at least one hit in each mate.
C18_BothHitCredited ==
    last.op \in BothCalls =>
        /\ both_not_threshold("raw") =>
              \E m \in Cs :
                  /\ pair_hits("raw", 0)[m] >= 1 /\ pair_hits("raw", 1)[m] >= 1
                  /\ credited(last.both_reads.k1_both_reads_not_threshold_by_contaminant,
                              both_reads.k1_both_reads_not_threshold_by_contaminant, m)
        /\ both_not_threshold("unique") =>
              \E m \in Cs :
                  /\ pair_hits("unique", 0)[m] >= 1 /\ pair_hits("unique", 1)[m] >= 1
                  /\ credited(
                        last.both_reads.k1_both_reads_not_threshold_unique_by_contaminant,
                        both_reads.k1_both_reads_not_threshold_unique_by_contaminant, m)

\* the read of the latest single-read call, and the counters before and after it
read_in == last.counts[last.r]
read_before == last.read[last.r]
read_after == read[last.r]

\* C19: a single-read call adds one to kn_contaminated_reads when kmers_loaded >=
\* kmer_threshold_read, whatever the hit counts are, and leaves it alone otherwise.
C19_ReadLevelGate ==
    last.op \in ReadCalls =>
        read_after.kn_contaminated_reads
          = read_before.kn_contaminated_reads
              + (IF read_in.kmers_loaded >= cmd_line.kmer_threshold_read THEN 1 ELSE 0)

\* a read with no hit at all that passes the gate
C19_Witness ==
    /\ last.op \in ReadCalls
    /\ read_in.kmers_loaded >= cmd_line.kmer_threshold_read
    /\ \A i \in CIdx : read_in.kmers_from_contaminant[i] = 0
    /\ read_after.kn_contaminated_reads = read_before.kn_contaminated_reads + 1

C21_OneHitCounters ==
    last.op \in ReadCalls =>
        /\ read_after.k1_contaminated_reads
             = read_before.k1_contaminated_reads
                 + (IF read_in.kmers_loaded > 0 THEN 1 ELSE 0)
        /\ \A i \in CIdx :
            LET hit == /\ i \in Cs
                       /\ read_in.kmers_loaded > 0
                       /\ read_in.kmers_from_contaminant[i] >= 1
            IN  /\ read_after.k1_contaminated_reads_by_contaminant[i]
                     = read_before.k1_contaminated_reads_by_contaminant[i]
                         + (IF hit THEN 1 ELSE 0)
                /\ read_after.k1_unique_contaminated_reads_by_contaminant[i]
                     = read_before.k1_unique_contaminated_reads_by_contaminant[i]
                         + (IF hit /\ read_in.contaminants_detected = 1 THEN 1 ELSE 0)

\* a read with hits of two contaminants: both tallies rise, no unique one, the total by one
C21_Witness ==
    /\ last.op = "update_stats"
    /\ n_contaminants = 2
    /\ read_in.contaminants_detected = 2
    /\ read_after.k1_contaminated_reads_by_contaminant
         = [i \in CIdx |-> read_before.k1_contaminated_reads_by_contaminant[i]
                             + (IF i \in Cs THEN 1 ELSE 0)]
    /\ read_after.k1_unique_contaminated_reads_by_contaminant
         = read_before.k1_unique_contaminated_reads_by_contaminant
    /\ read_after.k1_contaminated_reads = read_before.k1_contaminated_reads + 1

\* the largest raw hit count of the read over the contaminants of the run
best_raw == LET raw == read_in.kmers_from_contaminant
            IN  IF Cs = {} THEN 0
                ELSE CHOOSE v \in {raw[i] : i \in Cs} : \A i \in Cs : raw[i] <= v

\* C22: a single-read call does exactly one of two things: when the best raw hit
\* count is 0 it adds one to reads_unclassified and sets assigned_contaminant to -1;
\* otherwise it adds one to reads_with_highest_contaminant of exactly one contaminant,
\* one holding the best count, and sets assigned_contaminant to that index.  A read
\* with kmers_loaded = 0 is unclassified.
C22_UnclassifiedOrAssigned ==
    last.op \in ReadCalls =>
        /\ IF best_raw = 0
           THEN /\ read_after.reads_unclassified = read_before.reads_unclassified + 1
                /\ read_after.reads_with_highest_contaminant
                     = read_before.reads_with_highest_contaminant
                /\ counts[last.r].assigned_contaminant = Unassigned
           ELSE /\ read_after.reads_unclassified = read_before.reads_unclassified
                /\ \E m \in Cs :
                      /\ read_in.kmers_from_contaminant[m] = best_raw
                      /\ read_after.reads_with_highest_contaminant
                           = [read_before.reads_with_highest_contaminant
                                 EXCEPT ![m] = @ + 1]
                      /\ counts[last.r].assigned_contaminant = m
        /\ read_in.kmers_loaded = 0 =>
               /\ read_after.reads_unclassified = read_before.reads_unclassified + 1
               /\ counts[last.r].assigned_contaminant = Unassigned

\* a read with k-mers loaded and no hit is unclassified
C22_Witness ==
    /\ last.op \in ReadCalls
    /\ n_contaminants = 2
    /\ read_in.kmers_loaded > 0
    /\ best_raw = 0
    /\ read_after.reads_unclassified = read_before.reads_unclassified + 1
    /\ counts[last.r].assigned_contaminant = Unassigned

\* the reads that differ from the read c in their unique hit counts at most
same_but_unique(c) ==
    {u \in Inputs(n_contaminants) :
        /\ u.kmers_loaded = c.kmers_loaded
        /\ u.kmers_from_contaminant = c.kmers_from_contaminant
        /\ u.contaminants_detected = c.contaminants_detected}

\* C23: a single-read call on a read with kmers_loaded > 0 sets
\* unique_assigned_contaminant to the lowest index holding the largest unique hit
\* count, or to -1 when that count is 0; and the counters it leaves are those it leaves
\* for any read that differs in the unique hit counts only.
C23_UniqueAssignedOnly ==
    last.op \in ReadCalls =>
        LET uq == read_in.unique_kmers_from_contaminant
            ua == counts[last.r].unique_assigned_contaminant
        IN  /\ read_in.kmers_loaded > 0 =>
                IF \A i \in Cs : uq[i] = 0
                THEN ua = Unassigned
                ELSE /\ ua \in Cs
                     /\ \A i \in Cs : uq[i] <= uq[ua]
                     /\ \A i \in 0 .. (ua - 1) : uq[i] < uq[ua]
            /\ \A u \in same_but_unique(read_in) :
                   update_stats(read_before, u, n_contaminants, cmd_line).rc = read_after

\* two contaminants tie on a positive unique count; a read with the same raw counts
\* and no unique hit exists
C23_Witness ==
    /\ last.op = "update_stats_parallel"
    /\ n_contaminants = 2
    /\ read_in.unique_kmers_from_contaminant = [i \in CIdx |-> IF i \in Cs THEN 1 ELSE 0]
    /\ counts[last.r].unique_assigned_contaminant = 0
    /\ \E u \in same_but_unique(read_in) :
           u.unique_kmers_from_contaminant = ZeroArray

\* C25: the histogram has the MAX_READ_LENGTH buckets 0 .. MAX_READ_LENGTH-1 that the
\* initialiser zeroes, and a single-read call adds one to one of them, whatever
\* kmers_loaded is.
C25_HistogramIndexInRange ==
    last.op \in ReadCalls =>
        \E k \in 0 .. (MAX_READ_LENGTH - 1) :
            read_after.contaminated_kmers_per_read
              = [read_before.contaminated_kmers_per_read EXCEPT ![k] = @ + 1]

\* the raw-tier counters of the pair counters, and the unique-tier ones
raw_tier_counters(b) ==
    <<b.threshold_passed_reads, b.k1_both_reads_not_threshold,
      b.k1_either_read_not_threshold, b.threshold_passed_reads_by_contaminant,
      b.k1_both_reads_not_threshold_by_contaminant,
      b.k1_either_read_not_threshold_by_contaminant>>
unique_tier_counters(b) ==
    <<b.threshold_passed_reads_unique, b.k1_both_reads_not_threshold_unique,
      b.k1_either_read_not_threshold_unique,
      b.threshold_passed_reads_unique_by_contaminant,
      b.k1_both_reads_not_threshold_unique_by_contaminant,
      b.k1_either_read_not_threshold_unique_by_contaminant>>

\* the reads with the raw hit counts of c, and those with its unique hit counts
same_raw(c) ==
    {u \in Inputs(n_contaminants) : u.kmers_from_contaminant = c.kmers_from_contaminant}
same_unique(c) ==
    {u \in Inputs(n_contaminants) :
        u.unique_kmers_from_contaminant = c.unique_kmers_from_contaminant}

\* C30: with the thresholds fixed, the raw-tier counters a pair call leaves are those
\* it leaves for any pair with the same raw hit counts in both mates, whatever the
\* unique hit counts are, and the unique-tier counters those it leaves for any pair
\* with the same unique hit counts, whatever the raw hit counts are.
C30_PassesIndependent ==
    last.op \in BothCalls =>
        /\ \A ua \in same_raw(last.counts[0]) : \A ub \in same_raw(last.counts[1]) :
               raw_tier_counters(update_stats_for_both(last.both_reads, cmd_line, ua, ub,
                                                       n_contaminants).both_reads)
                 = raw_tier_counters(both_reads)
        /\ \A ua \in same_unique(last.counts[0]) : \A ub \in same_unique(last.counts[1]) :
               unique_tier_counters(update_stats_for_both(last.both_reads, cmd_line, ua, ub,
                                                          n_contaminants).both_reads)
                 = unique_tier_counters(both_reads)

\* a pair whose raw counts raise a raw tier and whose unique counts raise none, while
\* a read with the same raw counts and other unique counts exists
C30_Witness ==
    /\ last.op = "update_stats_for_both"
    /\ n_contaminants = 2
    /\ raw_tier_counters(both_reads) # raw_tier_counters(last.both_reads)
    /\ unique_tier_counters(both_reads) = unique_tier_counters(last.both_reads)
    /\ \E ua \in same_raw(last.counts[0]) :
           ua.unique_kmers_from_contaminant # last.counts[0].unique_kmers_from_contaminant

\* no contaminant meets the tier-1 condition of a family and every contaminant has
\* zero hits of that family in both mates
no_hits_at_all(family) ==
    /\ \A i \in Cs : ~tier_one(family, i)
    /\ \A i \in Cs : pair_hits(family, 0)[i] = 0 /\ pair_hits(family, 1)[i] = 0

\* the pair calls made so far
pairs_processed == IF "both" \in done THEN 1 ELSE 0

\* C31: per pair and per family a pair call raises at most one of the three tier
\* scalars, and none exactly when no contaminant meets the tier-1 condition and every
\* contaminant has zero hits in both mates; so the sum of the three raw-tier scalars,
\* and of the three unique-tier ones, never exceeds the number of pairs processed.
C31_TierScalarsBounded ==
    /\ last.op \in BothCalls =>
          \A family \in {"raw", "unique"} :
              LET before == IF family = "raw" THEN raw_tier_scalars(last.both_reads)
                            ELSE unique_tier_scalars(last.both_reads)
                  after == IF family = "raw" THEN raw_tier_scalars(both_reads)
                           ELSE unique_tier_scalars(both_reads)
              IN  /\ raised(before, after) <= 1
                  /\ raised(before, after) = 0 <=> no_hits_at_all(family)
    /\ both_reads.threshold_passed_reads + both_reads.k1_both_reads_not_threshold
         + both_reads.k1_either_read_not_threshold <= pairs_processed
    /\ both_reads.threshold_passed_reads_unique
         + both_reads.k1_both_reads_not_threshold_unique
         + both_reads.k1_either_read_not_threshold_unique <= pairs_processed

\* a pair with hits in mate a only raised k1_either_read_not_threshold, and no
\* unique-tier scalar because it has no unique hit
C31_Witness ==
    /\ last.op \in BothCalls
    /\ n_contaminants = 2
    /\ \A i \in Cs : pair_hits("raw", 1)[i] = 0
    /\ \E i \in Cs : pair_hits("raw", 0)[i] > 0
    /\ no_hits_at_all("unique")
    /\ both_reads.k1_either_read_not_threshold = 1
    /\ both_reads.threshold_passed_reads + both_reads.k1_both_reads_not_threshold = 0
    /\ raised(unique_tier_scalars(last.both_reads), unique_tier_scalars(both_reads)) = 0

\* a KmerCounts without its two annotations
hits_of(c) ==
    [c EXCEPT !.assigned_contaminant = Unassigned,
              !.unique_assigned_contaminant = Unassigned]

\* the six tier scalars of the PairCounters and their per-contaminant arrays
tier_fields ==
    {"threshold_passed_reads", "k1_both_reads_not_threshold",
     "k1_either_read_not_threshold", "threshold_passed_reads_unique",
     "k1_both_reads_not_threshold_unique", "k1_either_read_not_threshold_unique",
     "threshold_passed_reads_by_contaminant",
     "k1_both_reads_not_threshold_by_contaminant",
     "k1_either_read_not_threshold_by_contaminant",
     "threshold_passed_reads_unique_by_contaminant",
     "k1_both_reads_not_threshold_unique_by_contaminant",
     "k1_either_read_not_threshold_unique_by_contaminant"}

\* what a single-read call for the mate last'.r leaves alone
read_call_frame ==
    LET r == last'.r
    IN  /\ read'[1 - r] = read[1 - r]
        /\ both_reads' = both_reads
        /\ kmers_in_common' = kmers_in_common
        /\ unique_kmers' = unique_kmers
        /\ contaminant_kmers' = contaminant_kmers
        /\ counts'[1 - r] = counts[1 - r]
        /\ hits_of(counts'[r]) = hits_of(counts[r])

\* what a pair call leaves alone
pair_call_frame ==
    /\ \A f \in DOMAIN both_reads : f \notin tier_fields => both_reads'[f] = both_reads[f]
    /\ both_reads'.number_of_reads = both_reads.number_of_reads
    /\ read' = read
    /\ counts' = counts
    /\ kmers_in_common' = kmers_in_common
    /\ unique_kmers' = unique_kmers

\* C33: a single-read call for mate r leaves the other mate's ReadCounters, the
\* PairCounters, the similarity matrix and the unique-k-mer counts unchanged and
\* changes nothing of the input hit counts but the assigned and unique-assigned
\* annotations; a pair call changes only the six tier scalars and their
\* per-contaminant arrays, leaving PairCounters.number_of_reads, both ReadCounters and
\* both inputs unchanged.
C33_ClassificationFrame ==
    [][/\ last'.op \in ReadCalls => read_call_frame
       /\ last'.op \in BothCalls => pair_call_frame]_vars

\* mate 0 has been classified and annotated with a contaminant, and the pair call
\* that came last has raised a tier scalar
C33_Witness ==
    /\ "read0" \in done
    /\ read[0].number_of_reads = 1
    /\ counts[0].assigned_contaminant # Unassigned
    /\ last.op \in BothCalls
    /\ both_reads # last.both_reads
    /\ read = last.read

(***************************************************************************)
(* Properties of the concurrent workers (SpecPar).                         *)
(***************************************************************************)
Workers == DOMAIN threads

\* no call is in progress
AllReturned == \A t \in Workers : threads[t].op \in {"call", "done"}

\* reads_unclassified plus the sum of reads_with_highest_contaminant
classified_reads(rc) ==
    rc.reads_unclassified + SumTo(rc.reads_with_highest_contaminant, n_contaminants)

\* C1: whenever no call is in progress, reads_unclassified plus the sum of
\* reads_with_highest_contaminant over the contaminants equals number_of_reads, in the
\* counters the parallel calls update and in those the serial calls update.
C1_ClassifiedOnce ==
    /\ AllReturned => \A r \in Mates : classified_reads(read[r]) = read[r].number_of_reads
    /\ \A r \in Mates : classified_reads(serial.read[r]) = serial.read[r].number_of_reads

\* every worker has classified a read of one mate, some unclassified and some assigned
C1_Witness ==
    /\ \A t \in Workers : threads[t].op = "done"
    /\ \E r \in Mates :
          /\ read[r].number_of_reads = NThreads
          /\ read[r].reads_unclassified >= 1
          /\ SumTo(read[r].reads_with_highest_contaminant, n_contaminants) >= 1

\* C6: when the workers' calls have returned, every counter holds the value the serial
\* variant leaves after the same calls made one after the other.
C6_ParallelEqualsSerial ==
    AllReturned => /\ read = serial.read
                   /\ both_reads = serial.both_reads

\* all workers ran update_stats_parallel and all raised the same per-contaminant counter
C6_Witness ==
    /\ \A t \in Workers : threads[t].op = "done" /\ threads[t].fn = "update_stats_parallel"
    /\ \E r \in Mates : \E i \in Cs :
          /\ read[r].number_of_reads = NThreads
          /\ read[r].k1_contaminated_reads_by_contaminant[i] = NThreads
          /\ read[r].reads_with_highest_contaminant[i] = NThreads

\* the counters a mutex protects
protected(l, rd, br) == IF l = "read0" THEN rd[0] ELSE IF l = "read1" THEN rd[1] ELSE br

\* a step keeps every mutex with at most one holder, and changes the counters of a
\* structure only as the store of the one thread that holds the structure's mutex
LockedWrite ==
    \A l \in Locks :
        /\ Cardinality(lock[l]) <= 1
        /\ Cardinality(lock'[l]) <= 1
        /\ protected(l, read', both_reads') # protected(l, read, both_reads) =>
              \E t \in Workers :
                  /\ lock[l] = {t}
                  /\ lock'[l] = {t}
                  /\ lock_of(threads[t]) = l
                  /\ threads[t].op = "store"
                  /\ \A u \in Workers \ {t} : threads'[u] = threads[u]

\* C8: every write of a counter of a ReadCounters or of the PairedCounters is made by a
\* thread that holds that structure's lock, and a lock never has two holders.
C8_WritesUnderLock == [][LockedWrite]_vars

\* one worker is between the two increments of its first critical section while
\* another waits for the same mutex
C8_Witness ==
    \E t \in Workers : \E u \in Workers \ {t} :
        /\ threads[t].op = "load" /\ threads[t].cs = 150 /\ threads[t].k = 2
        /\ lock[lock_of(threads[t])] = {t}
        /\ threads[u].op = "lock" /\ threads[u].cs = 150
        /\ lock_of(threads[u]) = lock_of(threads[t])
        /\ read[threads[t].r].number_of_reads = 1

\* a worker of update_stats_parallel past the unlock of line 155 and not yet in the
\* critical section of its classification
between_sections(th) ==
    /\ th.fn = "update_stats_parallel"
    /\ \/ th.cs \in {175, 181, 189}
       \/ th.cs \in {196, 202} /\ th.op = "lock"

\* C9: when a worker is between the first critical section and its classification and
\* the lock of its ReadCounters is free, number_of_reads and the histogram count its
\* read, and reads_unclassified plus the sum of reads_with_highest_contaminant is
\* smaller than number_of_reads.
C9_TornSnapshot ==
    \A t \in Workers :
        LET th == threads[t]
        IN  (between_sections(th) /\ lock[lock_of(th)] = {}) =>
                /\ read[th.r].number_of_reads >= 1
                /\ SumTo(read[th.r].contaminated_kmers_per_read, MAX_READ_LENGTH + 1)
                     = read[th.r].number_of_reads
                /\ classified_reads(read[th.r]) < read[th.r].number_of_reads

\* the lock is free, one read is counted, and neither a per-contaminant tally nor a
\* classification has been applied
C9_Witness ==
    \E t \in Workers :
        LET th == threads[t]
        IN  /\ between_sections(th) /\ th.cs = 175 /\ th.op = "lock"
            /\ lock[lock_of(th)] = {}
            /\ read[th.r].number_of_reads = 1
            /\ read[th.r].contaminated_kmers_per_read[histogram_index(th.counts)] = 1
            /\ read[th.r].k1_contaminated_reads_by_contaminant = ZeroArray
            /\ classified_reads(read[th.r]) = 0

\* the workers that have classified a read of mate r with k as its histogram index
counted_reads(r, k) ==
    {t \in Workers :
        /\ threads[t].op = "done"
        /\ threads[t].fn = "update_stats_parallel"
        /\ threads[t].r = r
        /\ k = (IF threads[t].counts.kmers_loaded < MAX_READ_LENGTH
                THEN threads[t].counts.kmers_loaded ELSE MAX_READ_LENGTH)}

\* the sum of the histogram buckets 0 .. MAX_READ_LENGTH
histogram_total(rc) == SumTo(rc.contaminated_kmers_per_read, MAX_READ_LENGTH + 1)

tier_sums_agree(b) ==
    /\ b.threshold_passed_reads
         = SumTo(b.threshold_passed_reads_by_contaminant, n_contaminants)
    /\ b.k1_both_reads_not_threshold
         = SumTo(b.k1_both_reads_not_threshold_by_contaminant, n_contaminants)
    /\ b.k1_either_read_not_threshold
         = SumTo(b.k1_either_read_not_threshold_by_contaminant, n_contaminants)
    /\ b.threshold_passed_reads_unique
         = SumTo(b.threshold_passed_reads_unique_by_contaminant, n_contaminants)
    /\ b.k1_both_reads_not_threshold_unique
         = SumTo(b.k1_both_reads_not_threshold_unique_by_contaminant, n_contaminants)
    /\ b.k1_either_read_not_threshold_unique
         = SumTo(b.k1_either_read_not_threshold_unique_by_contaminant, n_contaminants)

\* C29: whenever the lock of the pair counters is free, and between the calls of the
\* serial variant, each of the six tier scalars equals the sum over the contaminants
\* of its per-contaminant array.
C29_ScalarIsSumOfArray ==
    /\ lock["both_reads"] = {} => tier_sums_agree(both_reads)
    /\ tier_sums_agree(serial.both_reads)

\* a worker is between its raw and its unique critical section, the lock is free and
\* a raw tier has been raised
C29_Witness ==
    \E t \in Workers :
        /\ threads[t].fn = "update_stats_for_both_parallel"
        /\ threads[t].cs \in {439, 445, 450} /\ threads[t].op = "lock"
        /\ lock["both_reads"] = {}
        /\ both_reads.threshold_passed_reads
             + both_reads.k1_both_reads_not_threshold
             + both_reads.k1_either_read_not_threshold >= 1
        /\ tier_sums_agree(both_reads)

\* the mutexes worker t holds
held_by(t) == {l \in Locks : t \in lock[l]}

\* worker t can take a step
runnable(t) == threads[t].op = "call" \/ par_enabled(shared, threads[t])

\* a worker holds at most one mutex, holds none while it waits in pthread_mutex_lock,
\* and holds none before its call and after its return
lock_discipline ==
    \A t \in Workers :
        /\ Cardinality(held_by(t)) <= 1
        /\ threads[t].op = "lock" => held_by(t) = {}
        /\ threads[t].op \in {"call", "done"} => held_by(t) = {}

\* every worker has returned
AllDone == \A t \in Workers : threads[t].op = "done"

\* C32: the parallel variants are deadlock-free and terminate: a thread never holds
\* more than one lock, never requests a lock it holds, and holds no lock when
\* update_stats_parallel or update_stats_for_both_parallel returns; while a worker has
\* not returned some worker can take a step, and under fair scheduling every worker
\* eventually returns.
C32_DeadlockFreeTerminates ==
    /\ [](lock_discipline /\ (~AllDone => \E t \in Workers : runnable(t)))
    /\ <>[]AllDone

\* a worker waits in pthread_mutex_lock for the mutex another worker holds
C32_Witness ==
    \E t \in Workers, u \in Workers :
        /\ t # u
        /\ threads[t].op = "lock"
        /\ lock_of(threads[t]) = lock_of(threads[u])
        /\ held_by(u) = {lock_of(threads[u])}
        /\ ~runnable(t)

(***************************************************************************)
(* Properties of the similarity scanner (SpecScan).                        *)
(***************************************************************************)
\* the number of k-mers among the nodes ks that belong to both contaminant i and j
shared_kmers(ks, i, j) == Cardinality({k \in ks : i \in hash[k] /\ j \in hash[k]})

\* C10: during the first traversal kmers_in_common[i][j] is the number of visited
\* k-mers that belong to both i and j, and after it the number of such k-mers in the
\* table: the matrix is symmetric and its diagonal counts the k-mers of a contaminant.
C10_CommonMatrix ==
    visited.pc \in {"common", "unique", "report"} =>
        \A i \in Cs : \A j \in Cs :
            /\ kmers_in_common[i][j] = shared_kmers(visited.common, i, j)
            /\ visited.pc # "common" => kmers_in_common[i][j] = shared_kmers(Nodes, i, j)
            /\ kmers_in_common[i][j] = kmers_in_common[j][i]

\* the table {0}, {0,1}, {1} of two contaminants gives [[2,1],[1,2]]
C10_Witness ==
    /\ visited.pc = "unique"
    /\ hash = <<{0}, {0, 1}, {1}>>
    /\ kmers_in_common = [i \in CIdx |-> [j \in CIdx |-> IF i = j THEN 2 ELSE 1]]

\* the number of k-mers among the nodes ks that belong to contaminant i alone
own_kmers(ks, i) == Cardinality({k \in ks : hash[k] = {i}})

\* C11: during the second traversal unique_kmers[i] is the number of visited k-mers
\* whose contaminant set is exactly {i}, so a k-mer of one contaminant adds one to that
\* contaminant's count only and any other k-mer adds nothing; after the traversal it is
\* the number of such k-mers in the table.
C11_UniqueCounts ==
    \A i \in CIdx :
        /\ visited.pc \in {"entry", "return", "common"} => unique_kmers[i] = 0
        /\ visited.pc = "unique" => unique_kmers[i] = own_kmers(visited.unique, i)
        /\ visited.pc = "report" => unique_kmers[i] = own_kmers(Nodes, i)

\* the table {0}, {0,1}, {1} of two contaminants gives the unique counts [1,1]
C11_Witness ==
    /\ visited.pc = "report"
    /\ hash = <<{0}, {0, 1}, {1}>>
    /\ unique_kmers = [i \in CIdx |-> 1]

\* C26: when one of the fopen calls of the similarity files fails, only that file is
\* skipped and the run continues: exit is not called, both traversals are made and
\* the other similarity files are written.
C26_OpenFailureSkipsFile ==
    files.failed # {} =>
        /\ ~files.exited
        /\ visited.pc # "exit"
        /\ visited.pc = "report" =>
               /\ visited.common = Nodes
               /\ visited.unique = Nodes
               /\ files.written
                    = {SimilarityFiles[k] : k \in DOMAIN SimilarityFiles} \ files.failed

\* C28: with n_contaminants < 2 kmer_stats_compare_contaminant_kmers returns at once:
\* no node of the table is handed to a callback, kmers_in_common and unique_kmers
\* keep their values, and fopen is not called.
C28_FewContaminantsNoOp ==
    n_contaminants < 2 =>
        /\ visited.pc \in {"entry", "return"}
        /\ visited.common = {} /\ visited.unique = {}
        /\ kmers_in_common = [i \in CIdx |-> [j \in CIdx |-> 0]]
        /\ unique_kmers = ZeroArray
        /\ files = NoOutput

\* the function has returned on a table that holds k-mers of the only contaminant
C28_Witness ==
    /\ n_contaminants = 1
    /\ visited.pc = "return"
    /\ Len(hash) >= 1
    /\ hash[1] = {0}

(***************************************************************************)
(* Properties of the progress writer (SpecProgress).                       *)
(***************************************************************************)
\* the names in a sequence
names_of(q) == {q[k] : k \in DOMAIN q}

\* C27: during and after a call of kmer_stats_write_progress, a failed fopen ends
\* nothing: the files are attempted in order, every file attempted is written unless
\* its own fopen failed, the call goes on to the remaining files of the mate and of
\* the other mate, and the counters are those of the entry of the call.
C27_ProgressSkipsFailedFile ==
    last.op = "kmer_stats_write_progress" =>
        LET all == ProgressFiles(number_of_files)
        IN  /\ ~files.exited
            /\ Len(files.attempted) <= Len(all)
            /\ files.attempted = SubSeq(all, 1, Len(files.attempted))
            /\ files.failed \subseteq names_of(files.attempted)
            /\ files.written = names_of(files.attempted) \ files.failed
            /\ files.failed # {} /\ ~ENABLED WriteProgressFile =>
                   files.attempted = all
            /\ read = last.read
            /\ both_reads = last.both_reads

\* the first file of mate 1 failed and the five other files of the call were written
C27_Witness ==
    /\ last.op = "kmer_stats_write_progress"
    /\ number_of_files = 2
    /\ read[0].number_of_reads = 1
    /\ files.failed = {"data_overall_r1.txt"}
    /\ files.written = names_of(ProgressNames) \ {"data_overall_r1.txt"}

(***************************************************************************)
(* Properties of the finalizer (SpecCalc).  calc.row >= 1 says that the    *)
(* latest call was kmer_stats_calculate; calc.before is the state at its   *)
(* entry.                                                                  *)
(***************************************************************************)
\* the _pc fields whose denominator is number_of_reads
ReadScalarRates ==
    {"k1_contaminaned_reads_pc", "kn_contaminaned_reads_pc", "species_unclassified_pc"}
ReadArrayRates ==
    {"k1_contaminated_reads_by_contaminant_pc",
     "k1_unique_contaminated_reads_by_contaminant_pc",
     "kn_contaminated_reads_by_contaminant_pc",
     "kn_unique_contaminated_reads_by_contaminant_pc",
     "species_read_counts_pc"}
BothScalarRates ==
    {"threshold_passed_reads_pc", "k1_both_reads_not_threshold_pc",
     "k1_either_read_not_threshold_pc", "threshold_passed_reads_pc_unique",
     "k1_both_reads_not_threshold_pc_unique", "k1_either_read_not_threshold_pc_unique"}
BothArrayRates ==
    {"threshold_passed_reads_by_contaminant_pc",
     "k1_both_reads_not_threshold_by_contaminant_pc",
     "k1_either_read_not_threshold_by_contaminant_pc",
     "threshold_passed_reads_unique_by_contaminant_pc",
     "k1_both_reads_not_threshold_unique_by_contaminant_pc",
     "k1_either_read_not_threshold_unique_by_contaminant_pc"}

\* the rate fields of the structure are each left as they were or set to 0
untouched_or_sentinel(old, new, scalars, arrays) ==
    /\ \A f \in scalars : new[f] = old[f] \/ new[f] = zero_pc
    /\ \A f \in arrays : \A i \in CIdx : new[f][i] = old[f][i] \/ new[f][i] = zero_pc

\* C12: when kmer_stats_calculate runs on a read structure or on the pair
\* structure whose number_of_reads is 0, every rate field of that structure is
\* left untouched or set to the sentinel 0 (no division by zero is performed).
C12_NoDivisionByZero ==
    calc.row >= 1 =>
        /\ \A r \in Mates :
               calc.before.read[r].number_of_reads = 0 =>
                   untouched_or_sentinel(calc.before.pc.read[r], pc.read[r],
                                         ReadScalarRates, ReadArrayRates)
        /\ calc.before.both_reads.number_of_reads = 0 =>
               untouched_or_sentinel(calc.before.pc.both_reads, pc.both_reads,
                                     BothScalarRates, BothArrayRates)

\* C13: after kmer_stats_calculate, contaminant_kmers_seen_pc[i] of every
\* structure is the sentinel 0 for each contaminant i whose reference k-mer
\* total contaminant_kmers[i] is 0.
C13_ZeroTotalSentinel ==
    calc.row >= 1 =>
        \A i \in Cs :
            contaminant_kmers[i] = 0 =>
                /\ \A r \in Mates : pc.read[r].contaminant_kmers_seen_pc[i] = zero_pc
                /\ pc.both_reads.contaminant_kmers_seen_pc[i] = zero_pc

\* C14: kmer_stats_calculate on a read structure whose species_unclassified is
\* zero leaves species_unclassified_pc at 0 and species_unclassified at zero,
\* for every n_contaminants and whether or not it had been called before.
C14_UnclassifiedZero ==
    calc.row >= 1 =>
        \A r \in Mates :
            calc.before.read[r].species_unclassified = 0 =>
                /\ pc.read[r].species_unclassified_pc = zero_pc
                /\ read[r].species_unclassified = 0

\* a second finalization, after a read was classified, of two contaminants
C14_Witness ==
    /\ calc.calls = 2 /\ calc.row = 1
    /\ n_contaminants = 2
    /\ read[0].number_of_reads >= 1
    /\ calc.before.read[0].species_unclassified = 0
    /\ pc.read[0].species_unclassified_pc = zero_pc

\* C15: after single reads were classified and kmer_stats_calculate was
\* called with number_of_reads > 0, each rate field is 100 * count /
\* number_of_reads of the count the classifier accumulated: the assigned rate
\* of contaminant i from reads_with_highest_contaminant[i] and the
\* unclassified rate from reads_unclassified.
C15_RatesFromClassifierCounts ==
    calc.row >= 1 =>
        \A r \in Mates :
            LET rc == read[r]
                nr == rc.number_of_reads
                p == pc.read[r]
            IN  nr > 0 =>
                    /\ p.k1_contaminaned_reads_pc = percent(rc.k1_contaminated_reads, nr)
                    /\ p.kn_contaminaned_reads_pc = percent(rc.kn_contaminated_reads, nr)
                    /\ p.species_unclassified_pc = percent(rc.reads_unclassified, nr)
                    /\ \A i \in Cs :
                        /\ p.k1_contaminated_reads_by_contaminant_pc[i] =
                               percent(rc.k1_contaminated_reads_by_contaminant[i], nr)
                        /\ p.k1_unique_contaminated_reads_by_contaminant_pc[i] =
                               percent(rc.k1_unique_contaminated_reads_by_contaminant[i], nr)
                        /\ p.kn_contaminated_reads_by_contaminant_pc[i] =
                               percent(rc.kn_contaminated_reads_by_contaminant[i], nr)
                        /\ p.kn_unique_contaminated_reads_by_contaminant_pc[i] =
                               percent(rc.kn_unique_contaminated_reads_by_contaminant[i], nr)
                        /\ p.species_read_counts_pc[i] =
                               percent(rc.reads_with_highest_contaminant[i], nr)

\* C16: a call of kmer_stats_calculate that follows another one directly
\* leaves every _pc field and every counter as the first call left them.
C16_Idempotent == calc.row >= 2 => calc_state = calc.before

\* two calls in a row after two reads of mate 0, one of them contaminated
C16_Witness ==
    /\ calc.row = 2
    /\ n_contaminants = 2
    /\ read[0].number_of_reads = 2
    /\ pc.read[0].k1_contaminaned_reads_pc = percent(1, 2)

====
